---- MODULE Spec2Model ----
(***************************************************************************)
(* Model of github.com/optable/optable-pkglib, package io: the frame       *)
(* codecs (frame.go), the newline chunk splitter (chunk.go) and the        *)
(* closer / buffering shims (shim.go).                                     *)
(*                                                                         *)
(* Bytes are naturals in 0..255, byte strings are sequences of bytes.      *)
(* Every subsystem has its own variables and its own specification; a      *)
(* specification keeps the variables of the other subsystems at their      *)
(* idle values.                                                            *)
(***************************************************************************)
EXTENDS Integers, Sequences, FiniteSets, TLC

VARIABLES
    \* ---- length-prefixed codec, one writer and one reader (frame.go) ----
    sink,       \* the bytes.Buffer the writer appends to and the reader drains
    expected,   \* the payloads handed to Write, in order
    phase,      \* "write" | "read" | "done"
    rpos,       \* number of bytes of sink the reader has consumed
    rcap,       \* cap(buf) of the reader's reusable decode buffer
    frames,     \* the frames ReadAllFrames has collected so far
    rerr,       \* the error ReadAllFrames returned ("nil" while it runs)
    rbufs,      \* the backing arrays the reader has allocated for buf, oldest
                \* first, each as the bytes written to its front; buf is the last
    held,       \* the frames a caller got from its own Read calls: the array
                \* and length of the returned slice, and its bytes at that time
    wcounts,    \* the byte counts the Write calls returned, in order
    partialErr, \* what binary.ReadUvarint of the toolchain in use returns
                \* when the input ends inside a value
    \* ---- newline chunk splitter (chunk.go) ----
    src,        \* the whole content of the byte source
    chunkSize,  \* delimitedChunker.chunkSize
    srcPos,     \* number of bytes already read from the source
    rNil,       \* delimitedChunker.r == nil
    prev,       \* delimitedChunker.prev
    chunks,     \* the content of every chunk cursor returned so far, in order
    ckRet,      \* what the last NextChunk call returned
    ckFailed,   \* a NextChunk call has returned an error other than io.EOF
    srcErr,     \* the error the source returns once its bytes are read: "EOF",
                \* or an I/O error
    racPhase,   \* ReadAllChunks over the splitter: "run" until it returns, "done"
    racReaders, \* the readers ReadAllChunks has collected (returned, once done),
                \* each as the content of its chunk
    racErr,     \* the error ReadAllChunks returned ("nil" while it runs)
    heap,       \* the arrays NextChunk has allocated and read bytes into,
                \* oldest first, each as the bytes read into it
    prevAt,     \* where delimitedChunker.prev points: an array of heap and the
                \* first and last index of the slice (array 0 when prev is nil)
    cursors,    \* the chunk cursors returned so far, in order: the slices the
                \* cursor has still to read (segs), the bytes its scanner has
                \* buffered (sbuf), the frames it has returned (out), and
                \* whether it has returned io.EOF (eof)
    \* ---- ConcurrentFrameWriter over a length-prefixed writer (frame.go) ----
    cwSink,     \* the shared byte sink
    cwMu,       \* the mutex: 0 when free, else the producer holding it
    cwPc,       \* producer -> "idle" | "lock" | "prefix" | "payload" | "unlock"
    cwCur,      \* producer -> the payload of its Write in progress
    cwDone,     \* producer -> the payloads of its returned Writes, in order
    cwErr,      \* producer -> the wrapped writer failed in its latest Write
    \* ---- SafeCloser / closeOnce (shim.go) ----
    coPc,       \* caller -> position inside closeOnce.Close
    coDone,     \* sync.Once's done flag
    coMu,       \* sync.Once's mutex: 0 when free, else the caller holding it
    coErr,      \* closeOnce.err
    coUnder,    \* the underlying closer: "idle" | "running" | "closed"
    coCount,    \* number of times the underlying Close has been entered
    coResult,   \* the result the underlying Close produced
    coRet,      \* caller -> what its Close calls returned, in order, each with
                \* the state of the underlying closer at the return
    \* ---- chainedCloser and the buffered sink (shim.go) ----
    ccKinds,    \* chainedCloser.cs: the kind of each closer, in declaration order
    ccFail,     \* the closers of kind "fn" that return an error
    ccPc,       \* "idle" | "loop" | "in": position inside chainedCloser.Close
    ccIdx,      \* the iteration of the range loop over cs, from 1
    ccLog,      \* closer events of the current Close call, in order
    ccRet,      \* what the last completed Close returned (-1 before any)
    ccCalls,    \* number of Close calls started
    lastOp,     \* "none" | "write" | "close": the last call that returned
    bwSize,     \* size of the bufio.Writer's buffer
    bwBuf,      \* the bytes buffered by the bufio.Writer (b.buf[0:b.n])
    bwErr,      \* the bufio.Writer's sticky error b.err (0 is nil)
    bwSink,     \* the content of the underlying sink
    bwLimit,    \* the number of bytes the underlying sink accepts before failing
    bwHasClose, \* the underlying sink implements io.Closer
    bwWritten,  \* all bytes handed to Write, in order
    bwSinkClosed, \* number of times the underlying sink's Close was invoked
    \* ---- MultiFrameReader over slice readers (frame.go) ----
    mfIn,       \* the readers handed to MultiFrameReader, in order: the number
                \* of frames each holds and the error it ends with
    mfReaders,  \* multiFrameReader.readers: the readers not yet dropped
    mfPos,      \* reader -> number of frames it has returned
    mfOut,      \* the frames the composite has returned, in order
    mfRet,      \* what the last Read of the composite returned
    mfEof,      \* the readers that have returned io.EOF
    mfLate,     \* the readers that were read after they had returned io.EOF
    mfTouched,  \* the readers the last Read of the composite has read
    \* ---- newline writer and reader over one stream (frame.go) ----
    nlSink,     \* the bytes.Buffer the newline writer appends to
    nlWritten,  \* the payloads handed to Write, in order
    nlFirst,    \* the writer's flag first
    nlCounts,   \* the byte counts the Write calls returned, in order
    nlPhase,    \* "write" | "done"
    nlSkip,     \* the reader's skipEmpty
    nlBufSize,  \* the length of the buffer handed to the reader's scanner
    nlFrames,   \* what ReadAllFrames over the newline reader returned
    nlErr,      \* the error it returned
    \* ---- NewErrors (errors/error.go) ----
    neArgs,     \* the arguments of the call: errs
    neCalled,   \* the call has returned
    neRet,      \* what it returned
    \* ---- MaybeGracefulShutdown (lifecycle/shutdown.go) ----
    mgObj,      \* the dynamic type of i: "grpc" | "graceful" | "other"
    mgCtx,      \* ctx: "live", or the error of a context that is done
    mgShut,     \* what the object's Shutdown does: returns nil, an error of
                \* its own, or ctx.Err()
    mgStops,    \* the grpc server's GracefulStop returns
    mgCalls,    \* the methods of the object invoked by the call, in order
    mgCalled,   \* the call has returned
    mgRet,      \* what it returned
    \* ---- ServeWithGracefulShutdown (lifecycle/serve.go) ----
    svServe,    \* the goroutine around server.Serve: "serving" | "failed" |
                \* "cancelled" | "done" | "panic"
    svShut,     \* the shutdown goroutine: "select" | "shutdown" | "send" |
                \* "closing" | "done"
    svCtxDone,  \* the context derived by WithCancel is done
    svSignal,   \* a signal is pending in signals
    svBuf,      \* the errors buffered in shutdownCompleted (capacity 1)
    svClosed,   \* shutdownCompleted is closed
    svRecv,     \* what the receiver has received, in order
    svRecvClosed, \* the receiver has seen the channel closed
    svPanic     \* a send on the closed channel has happened

frameVars == <<sink, expected, phase, rpos, rcap, frames, rerr, rbufs, held,
               wcounts, partialErr>>
chunkVars == <<src, chunkSize, srcPos, rNil, prev, chunks, ckRet, ckFailed, heap,
               prevAt, cursors, srcErr, racPhase, racReaders, racErr>>
racVars   == <<racPhase, racReaders, racErr>>
cwVars    == <<cwSink, cwMu, cwPc, cwCur, cwDone, cwErr>>
coVars    == <<coPc, coDone, coMu, coErr, coUnder, coCount, coResult, coRet>>
ccVars    == <<ccKinds, ccFail, ccPc, ccIdx, ccLog, ccRet, ccCalls, lastOp>>
bwVars    == <<bwSize, bwBuf, bwErr, bwSink, bwLimit, bwHasClose, bwWritten,
               bwSinkClosed>>
mfVars    == <<mfIn, mfReaders, mfPos, mfOut, mfRet, mfEof, mfLate, mfTouched>>
nlVars    == <<nlSink, nlWritten, nlFirst, nlCounts, nlPhase, nlSkip, nlBufSize,
               nlFrames, nlErr>>
neVars    == <<neArgs, neCalled, neRet>>
mgVars    == <<mgObj, mgCtx, mgShut, mgStops, mgCalls, mgCalled, mgRet>>
svVars    == <<svServe, svShut, svCtxDone, svSignal, svBuf, svClosed, svRecv,
               svRecvClosed, svPanic>>
lcVars    == <<mgVars, svVars>>
extVars   == <<mfVars, nlVars, neVars, lcVars>>
vars      == <<frameVars, chunkVars, cwVars, coVars, ccVars, bwVars, extVars>>

\* What the actions of one subsystem leave alone.
NotFrame == <<chunkVars, cwVars, coVars, ccVars, bwVars, extVars>>
NotChunk == <<frameVars, cwVars, coVars, ccVars, bwVars, extVars>>
NotCw == <<frameVars, chunkVars, coVars, ccVars, bwVars, extVars>>
NotCo == <<frameVars, chunkVars, cwVars, ccVars, bwVars, extVars>>
NotCc == <<frameVars, chunkVars, cwVars, coVars, extVars>>
NotMf == <<frameVars, chunkVars, cwVars, coVars, ccVars, bwVars, nlVars, neVars,
           lcVars>>
NotNl == <<frameVars, chunkVars, cwVars, coVars, ccVars, bwVars, mfVars, neVars,
           lcVars>>
NotNe == <<frameVars, chunkVars, cwVars, coVars, ccVars, bwVars, mfVars, nlVars,
           lcVars>>
NotMg == <<frameVars, chunkVars, cwVars, coVars, ccVars, bwVars, mfVars, nlVars,
           neVars, svVars>>
NotSv == <<frameVars, chunkVars, cwVars, coVars, ccVars, bwVars, mfVars, nlVars,
           neVars, mgVars>>

----------------------------------------------------------------------------
(* Byte strings                                                            *)

Concat(ss) ==
    LET RECURSIVE Go(_)
        Go(i) == IF i > Len(ss) THEN <<>> ELSE ss[i] \o Go(i + 1)
    IN Go(1)

Rep(b, n) == [i \in 1..n |-> b]

Range(f) == {f[i] : i \in DOMAIN f}

Take(s, n) == SubSeq(s, 1, n)

Drop(s, n) == SubSeq(s, n + 1, Len(s))

IsPrefix(s, t) == Len(s) <= Len(t) /\ Take(t, Len(s)) = s

SeqsUpTo(S, n) == UNION {[1..k -> S] : k \in 0..n}

Min(a, b) == IF a <= b THEN a ELSE b


----------------------------------------------------------------------------
(* Length-prefixed codec: NewVarLenFrameWriter / NewVarLenFrameReader      *)

MaxFrames     == 3    \* payloads written per run
MaxPayloadLen == 1    \* length of the enumerated short payloads
LongLen       == 130  \* length of the long payload (a two-byte length prefix)

MaxVarintLen64 == 10

\* Lengths are uint64 in the code; the model saturates them at HugeLen, far
\* above the length of any modelled stream.
HugeLen == 1073741824

ShiftLeft(b, shift) ==
    IF b = 0 THEN 0 ELSE IF shift > 21 THEN HugeLen ELSE b * (2 ^ shift)

AddSat(x, y) == IF x + y > HugeLen THEN HugeLen ELSE x + y
varlenFrameReaderBufferSize == 256

\* 0 is the prefix of an empty frame, 128 carries the continuation bit.
PayloadBytes == {0, 128}

Payloads == SeqsUpTo(PayloadBytes, MaxPayloadLen) \cup {Rep(1, LongLen)}

\* A plausible slip: the continuation bit is not set on the low groups.
PutUvarint_NoContinuation(x) ==
    LET RECURSIVE Go(_)
        Go(v) == IF v >= 128 THEN <<v % 128>> \o Go(v \div 128) ELSE <<v>>
    IN Go(x)

\* binary.PutUvarint: seven bits per byte, low group first, bit 7 set on
\* every byte but the last.
PutUvarint(x) ==
    LET RECURSIVE Go(_)
        Go(v) == IF v >= 128 THEN <<(v % 128) + 128>> \o Go(v \div 128) ELSE <<v>>
    IN Go(x)

\* The bytes one Write of the length-prefixed writer appends: the prefix,
\* then the payload (two sink writes).
VarLenPrefix(payload) == PutUvarint(Len(payload))

VarLenFrame(payload) == VarLenPrefix(payload) \o payload

\* go.mod asks for go 1.16 and the workflow builds with 1.16.x.  Up to Go
\* 1.18 binary.ReadUvarint returns the ByteReader's io.EOF as it is, from Go
\* 1.19 on it returns io.ErrUnexpectedEOF once a byte of the value was read.
UvarintPartialErrs == {"EOF", "ErrUnexpectedEOF"}

\* The toolchain the module is built with is not fixed by the repository.
Toolchain == partialErr \in UvarintPartialErrs

\* binary.ReadUvarint over the bytes of s after position pos.
\* Result: the value, the error and the new position.
ReadUvarint(s, pos) ==
    LET RECURSIVE Go(_, _, _)
        Go(i, x, shift) ==
            IF i = MaxVarintLen64
            THEN [x |-> x, err |-> "overflow", pos |-> pos + i]
            ELSE IF pos + i >= Len(s)
            THEN [x |-> x,
                  err |-> IF i > 0 THEN partialErr ELSE "EOF",
                  pos |-> pos + i]
            ELSE LET b == s[pos + i + 1] IN
                 IF b < 128
                 THEN IF i = MaxVarintLen64 - 1 /\ b > 1
                      THEN [x |-> x, err |-> "overflow", pos |-> pos + i + 1]
                      ELSE [x |-> AddSat(x, ShiftLeft(b, shift)), err |-> "nil",
                            pos |-> pos + i + 1]
                 ELSE Go(i + 1, AddSat(x, ShiftLeft(b - 128, shift)), shift + 7)
    IN Go(0, 0, 0)

\* io.ReadFull(r, buf[:n]) over the bytes of s after position pos.
ReadFull(s, pos, n) ==
    LET avail == Len(s) - pos IN
    IF n = 0 THEN [data |-> <<>>, err |-> "nil", pos |-> pos]
    ELSE IF avail = 0 THEN [data |-> <<>>, err |-> "EOF", pos |-> pos]
    ELSE IF avail < n
    THEN [data |-> SubSeq(s, pos + 1, Len(s)), err |-> "ErrUnexpectedEOF",
          pos |-> Len(s)]
    ELSE [data |-> SubSeq(s, pos + 1, pos + n), err |-> "nil", pos |-> pos + n]

\* A reader that passes the error of the payload read through unchanged.
PayloadErr_PassThrough(err) == err

\* The error Read returns for the error of io.ReadFull on the payload:
\* io.EOF (no payload byte was left) becomes io.ErrUnexpectedEOF.
PayloadErr(err) == IF err = "EOF" THEN "ErrUnexpectedEOF" ELSE err

\* A reader that sizes its buffer to every payload.
GrowCap_Exact(cap, x) == x

\* if payloadLen > uint64(cap(buf)) { buf = make([]byte, payloadLen) }
GrowCap(cap, x) == IF x > cap THEN x ELSE cap

\* One Read of the length-prefixed reader.  fill is what the call wrote to
\* the front of buf, grew tells that it allocated a new buf first.
VarLenRead(s, pos, cap) ==
    LET hd == ReadUvarint(s, pos) IN
    IF hd.err # "nil"
    THEN [frame |-> <<>>, err |-> hd.err, pos |-> hd.pos, cap |-> cap,
          fill |-> <<>>, grew |-> FALSE]
    ELSE LET newcap == GrowCap(cap, hd.x)
             body   == ReadFull(s, hd.pos, hd.x)
         IN IF body.err # "nil"
            THEN [frame |-> <<>>, err |-> PayloadErr(body.err), pos |-> body.pos,
                  cap |-> newcap, fill |-> body.data, grew |-> hd.x > cap]
            ELSE [frame |-> body.data, err |-> "nil", pos |-> body.pos,
                  cap |-> newcap, fill |-> body.data, grew |-> hd.x > cap]

\* The reader's backing arrays after a Read with result r: a new array when
\* the call allocated one, and the bytes it read at the front of buf.
BufsAfter(bufs, r) ==
    IF r.grew
    THEN Append(bufs, r.fill)
    ELSE [bufs EXCEPT ![Len(bufs)] = r.fill \o Drop(@, Len(r.fill))]

\* ReadAllFrames over a length-prefixed reader on the whole of s.
VarLenReadAll(s) ==
    LET RECURSIVE Go(_, _, _)
        Go(pos, cap, acc) ==
            LET r == VarLenRead(s, pos, cap) IN
            IF r.err = "EOF" THEN [frames |-> acc, err |-> "nil"]
            ELSE IF r.err # "nil" THEN [frames |-> <<>>, err |-> r.err]
            ELSE Go(r.pos, r.cap, Append(acc, r.frame))
    IN Go(0, varlenFrameReaderBufferSize, <<>>)

InitFrame ==
    /\ sink = <<>>
    /\ expected = <<>>
    /\ phase = "write"
    /\ rpos = 0
    /\ rcap = varlenFrameReaderBufferSize
    /\ frames = <<>>
    /\ rerr = "nil"
    /\ rbufs = <<<<>>>>
    /\ held = <<>>
    /\ wcounts = <<>>
    /\ Toolchain

\* What Write returns after writing sync prefix bytes and n payload bytes:
\* return n + sync, err.
FrameCount(sync, n) == n + sync

\* FrameWriter.Write(payload) on the length-prefixed writer.
Write(payload) ==
    /\ phase = "write"
    /\ Len(expected) < MaxFrames
    /\ sink' = sink \o VarLenFrame(payload)
    /\ expected' = Append(expected, payload)
    /\ wcounts' = Append(wcounts,
                         FrameCount(Len(VarLenPrefix(payload)), Len(payload)))
    /\ UNCHANGED <<phase, rpos, rcap, frames, rerr, rbufs, held, partialErr>>
    /\ UNCHANGED NotFrame

\* ReadAllFrames(r) is entered: frames := make([][]byte, 0, 16).
ReadAllFramesStart ==
    /\ phase = "write"
    /\ phase' = "read"
    /\ frames' = <<>>
    /\ UNCHANGED <<sink, expected, rpos, rcap, rerr, rbufs, held, wcounts,
                   partialErr>>
    /\ UNCHANGED NotFrame

MaxCut == 2    \* how far from either end of the last frame a stream is cut

\* The lengths a stream is cut down to: within the last frame written, at
\* most MaxCut bytes after its start or before its end.
CutPoints ==
    IF expected = <<>> THEN {}
    ELSE LET start == Len(sink) - Len(VarLenFrame(expected[Len(expected)]))
         IN {k \in start..(Len(sink) - 1) :
                k - start <= MaxCut \/ Len(sink) - k <= MaxCut}

\* ReadAllFrames(r) is entered with r reading a stream that ends after the
\* first k bytes the writer produced.
ReadAllFramesTruncated(k) ==
    /\ phase = "write"
    /\ k \in CutPoints
    /\ sink' = Take(sink, k)
    /\ phase' = "read"
    /\ frames' = <<>>
    /\ UNCHANGED <<expected, rpos, rcap, rerr, rbufs, held, wcounts, partialErr>>
    /\ UNCHANGED NotFrame

\* One iteration of the loop of ReadAllFrames: r.Read(), then return or append.
ReadAllFramesStep ==
    /\ phase = "read"
    /\ LET r == VarLenRead(sink, rpos, rcap) IN
       /\ rpos' = r.pos
       /\ rcap' = r.cap
       /\ rbufs' = BufsAfter(rbufs, r)
       /\ IF r.err = "EOF"
          THEN phase' = "done" /\ rerr' = "nil" /\ frames' = frames
          ELSE IF r.err # "nil"
          THEN phase' = "done" /\ rerr' = r.err /\ frames' = <<>>
          ELSE phase' = "read" /\ rerr' = rerr /\ frames' = Append(frames, r.frame)
    /\ UNCHANGED <<sink, expected, held, wcounts, partialErr>>
    /\ UNCHANGED NotFrame

\* One r.Read() by a caller that keeps the slice it gets: buf[:payloadLen].
ReadFrame ==
    /\ phase = "write"
    /\ LET r == VarLenRead(sink, rpos, rcap) IN
       /\ rpos' = r.pos
       /\ rcap' = r.cap
       /\ rbufs' = BufsAfter(rbufs, r)
       /\ held' = IF r.err = "nil"
                  THEN Append(held, [arr |-> Len(rbufs'), len |-> Len(r.frame),
                                     got |-> r.frame])
                  ELSE held
    /\ UNCHANGED <<sink, expected, phase, frames, rerr, wcounts, partialErr>>
    /\ UNCHANGED NotFrame

NextFrame ==
    \/ \E p \in Payloads : Write(p)
    \/ ReadAllFramesStart
    \/ ReadAllFramesStep

----------------------------------------------------------------------------
(* Newline-delimited reader: NewNewlineDelimitedFrameReader                *)

NL == 10    \* '\n'
CR == 13    \* '\r'

Mebibyte == 1048576

\* bufio's dropCR: a trailing '\r' is removed from the line.
DropCR(line) ==
    IF Len(line) > 0 /\ line[Len(line)] = CR THEN Take(line, Len(line) - 1) ELSE line

\* Index of the first delimiter of s after position pos, 0 when there is none.
IndexByteFrom(s, pos, b) ==
    LET hits == {i \in (pos + 1)..Len(s) : s[i] = b} IN
    IF hits = {} THEN 0 ELSE CHOOSE i \in hits : \A j \in hits : i <= j

\* bytes.LastIndexByte, 1-based: 0 when b does not occur in s.
LastIndexByte(s, b) ==
    LET hits == {i \in 1..Len(s) : s[i] = b} IN
    IF hits = {} THEN 0 ELSE CHOOSE i \in hits : \A j \in hits : i >= j

\* A scanner whose buffer grows without limit.
TooLong_Never(n, bufSize) == FALSE

\* A line of n bytes does not fit the scanner's buffer of bufSize bytes
\* together with its delimiter: the buffer fills up before a token is found
\* and cannot grow.
TooLong(n, bufSize) == n >= bufSize

\* A reader that returns empty lines in both modes.
Skips_Never(skipEmpty, line) == FALSE

\* A reader that drops empty lines in both modes.
Skips_Always(skipEmpty, line) == Len(line) = 0

\* if skipEmpty && len(line) == 0 { continue }
Skips(skipEmpty, line) == skipEmpty /\ Len(line) = 0

\* ReadAllFrames over NewNewlineDelimitedFrameReader(s, skipEmpty), the
\* bufio.Scanner splitting with ScanLines in a buffer of bufSize bytes that
\* cannot grow (scanner.Buffer(buf, 0)): a line that fills the buffer before
\* its delimiter is seen ends the scan with ErrTooLong.
NewlineReadAllIn(s, skipEmpty, bufSize) ==
    LET RECURSIVE Go(_, _)
        Go(pos, acc) ==
            LET nl == IndexByteFrom(s, pos, NL) IN
            IF nl # 0
            THEN LET line == DropCR(SubSeq(s, pos + 1, nl - 1)) IN
                 IF TooLong(nl - 1 - pos, bufSize)
                 THEN [frames |-> <<>>, err |-> "ErrTooLong"]
                 ELSE IF Skips(skipEmpty, line)
                 THEN Go(nl, acc)
                 ELSE Go(nl, Append(acc, line))
            ELSE IF pos = Len(s)
            THEN [frames |-> acc, err |-> "nil"]
            ELSE LET line == DropCR(SubSeq(s, pos + 1, Len(s))) IN
                 IF TooLong(Len(s) - pos, bufSize)
                 THEN [frames |-> <<>>, err |-> "ErrTooLong"]
                 ELSE IF Skips(skipEmpty, line)
                 THEN [frames |-> acc, err |-> "nil"]
                 ELSE [frames |-> Append(acc, line), err |-> "nil"]
    IN Go(0, <<>>)

NewlineReadAll(s, skipEmpty) == NewlineReadAllIn(s, skipEmpty, Mebibyte)

----------------------------------------------------------------------------
(* Chunk splitter: NewNewlineDelimitedChunkReader / delimitedChunker       *)

MaxSrcLen    == 5   \* length of the source stream
MaxChunkSize == 6   \* largest chunk size tried

\* a delimiter, a carriage return and one ordinary byte ('a')
SrcBytes == {NL, CR, 97}

\* The error NewNewlineDelimitedChunkReader returns for a chunk size (the
\* reader handed to it is never nil here).
NewChunkReaderErr(size) == IF size < 0 THEN "InvalidArgErr" ELSE "nil"

\* A nil slice.
NilSlice == [arr |-> 0, lo |-> 1, hi |-> 0]

\* The bytes a slice shows in the heap h.
SliceBytes(h, sl) == IF sl.arr = 0 THEN <<>> ELSE SubSeq(h[sl.arr], sl.lo, sl.hi)

\* A splitter that reads every window into the array of its first window.
NewBuf_Reused(h, buf) ==
    IF buf = <<>> THEN [heap |-> h, arr |-> 0]
    ELSE IF h = <<>> THEN [heap |-> <<buf>>, arr |-> 1]
    ELSE [heap |-> [h EXCEPT ![1] = buf \o Drop(@, Len(buf))], arr |-> 1]

\* buf := make([]byte, c.chunkSize) filled by io.ReadFull: a new array on
\* every call.  An array no byte was read into is not recorded: no slice
\* of it shows a byte.
NewBuf(h, buf) ==
    IF buf = <<>> THEN [heap |-> h, arr |-> 0]
    ELSE [heap |-> Append(h, buf), arr |-> Len(h) + 1]

\* The cursor NextChunk returns over the slices segs:
\* NewNewlineDelimitedFrameReader(io.MultiReader(buffers...), true).
NewCursor(segs) == [segs |-> segs, sbuf |-> <<>>, out |-> <<>>, eof |-> FALSE]

\* The errors a source ends with: io.EOF, an error of its own, and
\* io.ErrUnexpectedEOF reported by the source itself (a truncated
\* compressed stream, for one).
SrcErrs == {"EOF", "ErrSrc", "ErrUnexpectedEOF"}

\* What io.ReadFull returns for a window of n bytes read from a source that
\* ends with err: nil for a full window; at the end of the source io.EOF
\* becomes io.ErrUnexpectedEOF when some bytes were read, and any other
\* error is returned as it is.
ReadFullErr(n, size, err) ==
    IF n >= size THEN "nil"
    ELSE IF err = "EOF" THEN (IF n > 0 THEN "ErrUnexpectedEOF" ELSE "EOF")
    ELSE err

\* errors.Is(err, io.ErrUnexpectedEOF) || errors.Is(err, io.EOF)
IsEndOfInput(err) == err \in {"EOF", "ErrUnexpectedEOF"}

\* The splitter as constructed over a source that ends with one of errs.
InitSplitter(errs) ==
    /\ srcErr \in errs
    /\ src \in SeqsUpTo(SrcBytes, MaxSrcLen)
    /\ chunkSize \in (-1)..MaxChunkSize
    /\ srcPos = 0
    /\ rNil = FALSE
    /\ prev = <<>>
    /\ chunks = <<>>
    /\ ckRet = IF NewChunkReaderErr(chunkSize) = "nil" THEN "none" ELSE "InvalidArgErr"
    /\ ckFailed = FALSE
    /\ heap = <<>>
    /\ prevAt = NilSlice
    /\ cursors = <<>>
    /\ racPhase = "run"
    /\ racReaders = <<>>
    /\ racErr = "nil"

\* The splitter over a source that ends with io.EOF.
InitChunk == InitSplitter({"EOF"})

\* A splitter that keeps no carry between windows.
CarryOf_Empty(buf, pos) == <<>>

\* A splitter that cuts the window one byte too early.
HeadOf_OffByOne(buf, pos) == SubSeq(buf, 1, pos - 2)

\* A splitter whose carry starts after the delimiter.
CarryOf_AfterDelimiter(buf, pos) == SubSeq(buf, pos + 1, Len(buf))

\* The carry NextChunk keeps when the last delimiter of the window is at
\* 1-based index pos: buf[pos:] in the code, the delimiter included.
CarryOf(buf, pos) == SubSeq(buf, pos, Len(buf))

\* The part of the window that goes into the chunk: buf[0:pos] in the code,
\* the bytes before the last delimiter.
HeadOf(buf, pos) == SubSeq(buf, 1, pos - 1)

\* A splitter that forgets it has seen the end of its source.
Exhausted_Never == FALSE

\* if c.r == nil { return nil, io.EOF }
Exhausted == rNil

\* A splitter that takes every window without a delimiter for the last one.
FullWindow_Never(buf) == FALSE

\* A splitter that fails on every window without a delimiter.
FullWindow_Always(buf) == TRUE

\* if len(buf) == c.chunkSize: the window was not shortened by end-of-input.
FullWindow(buf) == Len(buf) = chunkSize

\* delimitedChunker.NextChunk, one call, whoever makes it.
NextChunkCall ==
    /\ ckRet # "InvalidArgErr"
    /\ IF Exhausted
       THEN /\ ckRet' = "EOF"
            /\ UNCHANGED <<srcPos, rNil, prev, chunks, ckFailed, heap, prevAt, cursors>>
       ELSE LET n     == Min(chunkSize, Len(src) - srcPos)
                buf   == SubSeq(src, srcPos + 1, srcPos + n)
                err   == ReadFullErr(n, chunkSize, srcErr)
                short == IsEndOfInput(err)
                pos   == LastIndexByte(buf, NL)
                nb    == NewBuf(heap, buf)
                carry == IF prev # <<>> THEN <<prevAt>> ELSE <<>>
            IN /\ srcPos' = srcPos + n
               /\ IF err # "nil" /\ ~IsEndOfInput(err)
                  THEN /\ ckRet' = err
                       /\ ckFailed' = TRUE
                       /\ UNCHANGED <<rNil, prev, prevAt, chunks, cursors, heap>>
                  ELSE /\ rNil' = short
                       /\ heap' = nb.heap
                       /\ ckFailed' = (ckFailed \/ (pos = 0 /\ FullWindow(buf)))
                       /\ IF pos = 0
                          THEN IF FullWindow(buf)
                               THEN /\ ckRet' = "NoFrameFoundErr"
                                    /\ prev' = <<>>
                                    /\ prevAt' = NilSlice
                                    /\ chunks' = chunks
                                    /\ cursors' = cursors
                               ELSE /\ ckRet' = "chunk"
                                    /\ prev' = <<>>
                                    /\ prevAt' = NilSlice
                                    /\ chunks' = Append(chunks, prev \o buf)
                                    /\ cursors' = Append(cursors, NewCursor(carry \o
                                           <<[arr |-> nb.arr, lo |-> 1, hi |-> Len(buf)]>>))
                          ELSE /\ ckRet' = "chunk"
                               /\ prev' = CarryOf(buf, pos)
                               /\ prevAt' = [arr |-> nb.arr, lo |-> pos, hi |-> Len(buf)]
                               /\ chunks' = Append(chunks, prev \o HeadOf(buf, pos))
                               /\ cursors' = Append(cursors, NewCursor(carry \o
                                      <<[arr |-> nb.arr, lo |-> 1, hi |-> pos - 1]>>))
    /\ UNCHANGED <<src, chunkSize, srcErr>>
    /\ UNCHANGED NotChunk

\* delimitedChunker.NextChunk called directly.
NextChunk == NextChunkCall /\ UNCHANGED racVars

\* A drain that returns what it has collected along with the error.
RacOnError_Partial(readers) == readers

\* return nil, err: the readers collected so far are dropped.
RacOnError(readers) == <<>>

\* One iteration of the loop of ReadAllChunks: chunker.NextChunk(), then
\* break, return or append.
ReadAllChunksStep ==
    /\ racPhase = "run"
    /\ NextChunkCall
    /\ IF ckRet' = "EOF"
       THEN racPhase' = "done" /\ racErr' = "nil" /\ racReaders' = racReaders
       ELSE IF ckRet' # "chunk"
       THEN /\ racPhase' = "done"
            /\ racErr' = ckRet'
            /\ racReaders' = RacOnError(racReaders)
       ELSE /\ racPhase' = "run"
            /\ racErr' = racErr
            /\ racReaders' = Append(racReaders, chunks'[Len(chunks')])

\* One Read of a chunk cursor cur over the heap h: the scanner returns the
\* next line its buffer holds, fetching the next slice of the MultiReader
\* when the buffer holds no delimiter, and the rest of the buffer at the end
\* of the slices; empty lines are skipped.  The scanner's buffer of one MiB
\* is never filled by the windows tried here.
CursorScan(h, cur) ==
    LET RECURSIVE Go(_, _)
        Go(segs, sbuf) ==
            LET nl == IndexByteFrom(sbuf, 0, NL) IN
            IF nl # 0
            THEN LET line == DropCR(Take(sbuf, nl - 1)) IN
                 IF line = <<>>
                 THEN Go(segs, Drop(sbuf, nl))
                 ELSE [segs |-> segs, sbuf |-> Drop(sbuf, nl),
                       out |-> Append(cur.out, line), eof |-> FALSE]
            ELSE IF segs # <<>>
            THEN Go(Tail(segs), sbuf \o SliceBytes(h, Head(segs)))
            ELSE IF DropCR(sbuf) # <<>>
            THEN [segs |-> segs, sbuf |-> <<>>,
                  out |-> Append(cur.out, DropCR(sbuf)), eof |-> FALSE]
            ELSE [segs |-> segs, sbuf |-> <<>>, out |-> cur.out, eof |-> TRUE]
    IN Go(cur.segs, cur.sbuf)

\* One Read on the i-th chunk cursor returned.
CursorRead(i) ==
    /\ i \in DOMAIN cursors
    /\ cursors' = [cursors EXCEPT ![i] = CursorScan(heap, @)]
    /\ UNCHANGED <<src, chunkSize, srcPos, rNil, prev, chunks, ckRet, ckFailed, heap,
                   prevAt, srcErr, racVars>>
    /\ UNCHANGED NotChunk

\* Draining the cursors of all chunks in chunk order:
\* ReadAllFrames(MultiFrameReader(readers...)).
ChunkFrames(cs) ==
    LET RECURSIVE Go(_)
        Go(i) == IF i > Len(cs) THEN <<>>
                 ELSE NewlineReadAll(cs[i], TRUE).frames \o Go(i + 1)
    IN Go(1)

\* Decoding the whole source directly, skip-empty mode.
DirectFrames(s) == NewlineReadAll(s, TRUE).frames


----------------------------------------------------------------------------
(* ConcurrentFrameWriter wrapping a length-prefixed writer                 *)

NumProducers      == 2   \* N, the producers
FramesPerProducer == 2   \* M, the frames each producer writes

Producers == 1..NumProducers

\* The j-th payload of producer p: j bytes that all carry the continuation
\* bit, so that a torn frame cannot decode to a written payload.
CwPayload(p, j) == Rep(127 + p, j)

InitCw ==
    /\ cwSink = <<>>
    /\ cwMu = 0
    /\ cwPc = [p \in Producers |-> "idle"]
    /\ cwCur = [p \in Producers |-> <<>>]
    /\ cwDone = [p \in Producers |-> <<>>]
    /\ cwErr = [p \in Producers |-> FALSE]

\* A wrapper that takes no lock.
MutexFree_NoLock == TRUE

\* mu.Lock() succeeds only while no producer holds the mutex.
MutexFree == cwMu = 0

\* A producer calls Write(payload) on the ConcurrentFrameWriter.
CwCall(p) ==
    /\ cwPc[p] = "idle"
    /\ Len(cwDone[p]) < FramesPerProducer
    /\ cwCur' = [cwCur EXCEPT ![p] = CwPayload(p, Len(cwDone[p]) + 1)]
    /\ cwPc' = [cwPc EXCEPT ![p] = "lock"]
    /\ cwErr' = [cwErr EXCEPT ![p] = FALSE]
    /\ UNCHANGED <<cwSink, cwMu, cwDone>>
    /\ UNCHANGED NotCw

\* mu.Lock()
CwLock(p) ==
    /\ cwPc[p] = "lock"
    /\ MutexFree
    /\ cwMu' = p
    /\ cwPc' = [cwPc EXCEPT ![p] = "prefix"]
    /\ UNCHANGED <<cwSink, cwCur, cwDone, cwErr>>
    /\ UNCHANGED NotCw

\* The wrapped writer's first sink write: the length prefix.
CwWritePrefix(p) ==
    /\ cwPc[p] = "prefix"
    /\ cwSink' = cwSink \o VarLenPrefix(cwCur[p])
    /\ cwPc' = [cwPc EXCEPT ![p] = "payload"]
    /\ UNCHANGED <<cwMu, cwCur, cwDone, cwErr>>
    /\ UNCHANGED NotCw

\* The wrapped writer's second sink write: the payload.
CwWritePayload(p) ==
    /\ cwPc[p] = "payload"
    /\ cwSink' = cwSink \o cwCur[p]
    /\ cwPc' = [cwPc EXCEPT ![p] = "unlock"]
    /\ UNCHANGED <<cwMu, cwCur, cwDone, cwErr>>
    /\ UNCHANGED NotCw

\* The wrapped writer's sink write in progress fails: w.Write returns the
\* error, without writing the payload when it was the prefix that failed.
CwWriteFails(p) ==
    /\ cwPc[p] \in {"prefix", "payload"}
    /\ cwErr' = [cwErr EXCEPT ![p] = TRUE]
    /\ cwPc' = [cwPc EXCEPT ![p] = "unlock"]
    /\ UNCHANGED <<cwSink, cwMu, cwCur, cwDone>>
    /\ UNCHANGED NotCw

\* A wrapper that unlocks only after a successful write.
Releases_OnSuccessOnly(failed) == ~failed

\* defer mu.Unlock(): runs however w.Write returned.
Releases(failed) == TRUE

\* The deferred mu.Unlock(), then Write returns.
CwUnlock(p) ==
    /\ cwPc[p] = "unlock"
    /\ cwMu' = IF Releases(cwErr[p]) THEN 0 ELSE cwMu
    /\ cwDone' = [cwDone EXCEPT ![p] = Append(cwDone[p], cwCur[p])]
    /\ cwPc' = [cwPc EXCEPT ![p] = "idle"]
    /\ UNCHANGED <<cwSink, cwCur, cwErr>>
    /\ UNCHANGED NotCw

NextCw ==
    \E p \in Producers :
        \/ CwCall(p)
        \/ CwLock(p)
        \/ CwWritePrefix(p)
        \/ CwWritePayload(p)
        \/ CwUnlock(p)

----------------------------------------------------------------------------
(* SafeCloser: closeOnce.Close over sync.Once                              *)

NumCallers    == 2   \* goroutines calling Close on the wrapper
CallsPerCaller == 2  \* Close calls each of them makes

Callers == 1..NumCallers

\* Results of the underlying Close: 0 is nil, 1 and 2 are two errors.
CloseResults == {0, 1, 2}

InitCo ==
    /\ coPc = [c \in Callers |-> "idle"]
    /\ coDone = FALSE
    /\ coMu = 0
    /\ coErr = 0
    /\ coUnder = "idle"
    /\ coCount = 0
    /\ coResult = 0
    /\ coRet = [c \in Callers |-> <<>>]

\* A Once that forgets it has run.
OnceDone_Never == FALSE

\* o.done, as read by the fast path and again under the mutex.
OnceDone == coDone

\* A Once whose slow path does not wait for the mutex.
OnceMutexFree_NoLock == TRUE

\* o.m.Lock() succeeds only while no caller holds the mutex.
OnceMutexFree == coMu = 0

\* closeOnce.Close is called.
CoCall(c) ==
    /\ coPc[c] = "idle"
    /\ Len(coRet[c]) < CallsPerCaller
    /\ coPc' = [coPc EXCEPT ![c] = "check"]
    /\ UNCHANGED <<coDone, coMu, coErr, coUnder, coCount, coResult, coRet>>
    /\ UNCHANGED NotCo

\* Once.Do: if atomic.LoadUint32(&o.done) == 0 { o.doSlow(f) }
CoCheck(c) ==
    /\ coPc[c] = "check"
    /\ coPc' = [coPc EXCEPT ![c] = IF OnceDone THEN "ret" ELSE "lock"]
    /\ UNCHANGED <<coDone, coMu, coErr, coUnder, coCount, coResult, coRet>>
    /\ UNCHANGED NotCo

\* doSlow: o.m.Lock()
CoLock(c) ==
    /\ coPc[c] = "lock"
    /\ OnceMutexFree
    /\ coMu' = c
    /\ coPc' = [coPc EXCEPT ![c] = "locked"]
    /\ UNCHANGED <<coDone, coErr, coUnder, coCount, coResult, coRet>>
    /\ UNCHANGED NotCo

\* doSlow: if o.done == 0 { f() }: the underlying Close is entered, or skipped.
CoLocked(c) ==
    /\ coPc[c] = "locked"
    /\ IF OnceDone
       THEN /\ coPc' = [coPc EXCEPT ![c] = "unlock"]
            /\ UNCHANGED <<coUnder, coCount>>
       ELSE /\ coPc' = [coPc EXCEPT ![c] = "closing"]
            /\ coUnder' = "running"
            /\ coCount' = coCount + 1
    /\ UNCHANGED <<coDone, coMu, coErr, coResult, coRet>>
    /\ UNCHANGED NotCo

\* c.err = c.closer.Close(): the underlying Close completes with some result.
CoCloseEnd(c) ==
    /\ coPc[c] = "closing"
    /\ \E res \in CloseResults :
        /\ coErr' = res
        /\ coResult' = res
    /\ coUnder' = "closed"
    /\ coPc' = [coPc EXCEPT ![c] = "store"]
    /\ UNCHANGED <<coDone, coMu, coCount, coRet>>
    /\ UNCHANGED NotCo

\* The deferred atomic.StoreUint32(&o.done, 1)
CoStore(c) ==
    /\ coPc[c] = "store"
    /\ coDone' = TRUE
    /\ coPc' = [coPc EXCEPT ![c] = "unlock"]
    /\ UNCHANGED <<coMu, coErr, coUnder, coCount, coResult, coRet>>
    /\ UNCHANGED NotCo

\* The deferred o.m.Unlock()
CoUnlock(c) ==
    /\ coPc[c] = "unlock"
    /\ coMu' = 0
    /\ coPc' = [coPc EXCEPT ![c] = "ret"]
    /\ UNCHANGED <<coDone, coErr, coUnder, coCount, coResult, coRet>>
    /\ UNCHANGED NotCo

\* return c.err
CoReturn(c) ==
    /\ coPc[c] = "ret"
    /\ coRet' = [coRet EXCEPT ![c] = Append(coRet[c], [err |-> coErr, under |-> coUnder])]
    /\ coPc' = [coPc EXCEPT ![c] = "idle"]
    /\ UNCHANGED <<coDone, coMu, coErr, coUnder, coCount, coResult>>
    /\ UNCHANGED NotCo

NextCo ==
    \E c \in Callers :
        \/ CoCall(c)
        \/ CoCheck(c)
        \/ CoLock(c)
        \/ CoLocked(c)
        \/ CoCloseEnd(c)
        \/ CoStore(c)
        \/ CoUnlock(c)
        \/ CoReturn(c)


----------------------------------------------------------------------------
(* chainedCloser: NewChainedCloser / chainedCloser.Close                   *)

MaxClosers    == 3   \* closers chained
MaxCloseCalls == 2   \* Close calls on one chained closer
MaxTotal      == 4   \* bytes handed to Write over one run

\* Errors are numbered, 0 is nil.  A closer of kind "fn" that fails returns
\* its own index.
ErrSinkWrite == 1
ErrSinkClose == 2

\* A loop that walks the closers backwards.
RangeOrder_Reversed(k) == Len(ccKinds) + 1 - k

\* for _, c := range w.cs: the closer taken in iteration k.
RangeOrder(k) == k

\* A loop that goes on after a failure.
StopsOn_Never(err) == FALSE

\* if err := c.Close(); err != nil { return err }
StopsOn(err) == err # 0

CcEvent(ev, i, err) == [ev |-> ev, i |-> i, err |-> err]

\* chainedCloser.Close is called.
CcClose ==
    /\ ccPc = "idle"
    /\ ccCalls < MaxCloseCalls
    /\ ccPc' = "loop"
    /\ ccIdx' = 1
    /\ ccLog' = <<>>
    /\ ccCalls' = ccCalls + 1
    /\ UNCHANGED <<ccKinds, ccFail, ccRet, lastOp, bwVars>>
    /\ UNCHANGED NotCc

\* The loop calls c.Close() on the next closer.
CcInvoke ==
    /\ ccPc = "loop"
    /\ ccIdx <= Len(ccKinds)
    /\ ccLog' = Append(ccLog, CcEvent("start", RangeOrder(ccIdx), 0))
    /\ ccPc' = "in"
    /\ UNCHANGED <<ccKinds, ccFail, ccIdx, ccRet, ccCalls, lastOp, bwVars>>
    /\ UNCHANGED NotCc

\* c.Close() has returned err: Close returns it, or the loop goes on.
CcAfter(err) ==
    /\ ccLog' = Append(ccLog, CcEvent("end", RangeOrder(ccIdx), err))
    /\ IF StopsOn(err)
       THEN /\ ccRet' = err
            /\ ccPc' = "idle"
            /\ lastOp' = "close"
            /\ ccIdx' = ccIdx
       ELSE /\ ccIdx' = ccIdx + 1
            /\ ccPc' = "loop"
            /\ UNCHANGED <<ccRet, lastOp>>
    /\ UNCHANGED <<ccKinds, ccFail, ccCalls>>

\* A closer given to NewChainedCloser (a CloserFn) returns.
CcCompleteFn ==
    /\ ccPc = "in"
    /\ ccKinds[RangeOrder(ccIdx)] = "fn"
    /\ CcAfter(IF RangeOrder(ccIdx) \in ccFail THEN RangeOrder(ccIdx) ELSE 0)
    /\ UNCHANGED bwVars
    /\ UNCHANGED NotCc

\* The loop is over: return nil.
CcReturnNil ==
    /\ ccPc = "loop"
    /\ ccIdx > Len(ccKinds)
    /\ ccRet' = 0
    /\ ccPc' = "idle"
    /\ lastOp' = "close"
    /\ UNCHANGED <<ccKinds, ccFail, ccIdx, ccLog, ccCalls, bwVars>>
    /\ UNCHANGED NotCc

\* The bytes the next Write of k bytes carries: numbered in write order.
NextBytes(k) == [i \in 1..k |-> Len(bwWritten) + i]

\* Write on a chained closer built over a plain buffer (as in the test): the
\* embedded io.Writer takes the bytes, no closer is touched.
ChainWrite(k) ==
    /\ ccPc = "idle"
    /\ Len(bwWritten) + k <= MaxTotal
    /\ bwSink' = bwSink \o NextBytes(k)
    /\ bwWritten' = bwWritten \o NextBytes(k)
    /\ lastOp' = "write"
    /\ UNCHANGED <<ccKinds, ccFail, ccPc, ccIdx, ccLog, ccRet, ccCalls>>
    /\ UNCHANGED <<bwSize, bwBuf, bwErr, bwLimit, bwHasClose, bwSinkClosed>>
    /\ UNCHANGED NotCc

IdleBw ==
    /\ bwSize = 0
    /\ bwBuf = <<>>
    /\ bwErr = 0
    /\ bwSink = <<>>
    /\ bwLimit = 0
    /\ bwHasClose = FALSE
    /\ bwWritten = <<>>
    /\ bwSinkClosed = 0

\* NewChainedCloser(w, cs...) over n closers, any of which may fail.
InitCc ==
    /\ \E n \in 0..MaxClosers :
        /\ ccKinds = [i \in 1..n |-> "fn"]
        /\ ccFail \in SUBSET (1..n)
    /\ ccPc = "idle"
    /\ ccIdx = 0
    /\ ccLog = <<>>
    /\ ccRet = -1
    /\ ccCalls = 0
    /\ lastOp = "none"
    /\ IdleBw

NextCc ==
    \/ CcClose
    \/ CcInvoke
    \/ CcCompleteFn
    \/ CcReturnNil
    \/ \E k \in 1..2 : ChainWrite(k)

----------------------------------------------------------------------------
(* Buffered sink: NewBufferWriteCloserSize                                 *)

MaxBufSize  == 3   \* largest buffer size tried
MaxWriteLen == 3   \* largest single Write

defaultBufSize == 4096

\* The size of the bufio.Writer: NewBufferWriteCloserSize replaces a negative
\* size, bufio.NewWriterSize a size that is not positive.
BufSize(size) == IF size <= 0 THEN defaultBufSize ELSE size

\* A constructor that closes the sink before it flushes.
BufferedClosers_SinkFirst(hasClose) ==
    IF hasClose THEN <<"sink", "flush">> ELSE <<"flush">>

\* A constructor that forgets the flush.
BufferedClosers_NoFlush(hasClose) ==
    IF hasClose THEN <<"sink">> ELSE <<>>

\* closers := []io.Closer{CloserFn(buf.Flush)}, then the sink when it
\* implements io.Closer.
BufferedClosers(hasClose) ==
    IF hasClose THEN <<"flush", "sink">> ELSE <<"flush">>

\* One Write of the underlying sink: it takes the bytes while it has room and
\* fails, after a partial write, when it has not.
SinkWrite(sinkc, p, limit) ==
    LET room == limit - Len(sinkc) IN
    IF Len(p) <= room
    THEN [n |-> Len(p), err |-> 0, sink |-> sinkc \o p]
    ELSE [n |-> room, err |-> ErrSinkWrite, sink |-> sinkc \o Take(p, room)]

\* bufio.Writer.Flush on st = [buf, err, sink].
BufioFlush(st, limit) ==
    IF st.err # 0 THEN [buf |-> st.buf, err |-> st.err, sink |-> st.sink, ret |-> st.err]
    ELSE IF Len(st.buf) = 0
    THEN [buf |-> st.buf, err |-> 0, sink |-> st.sink, ret |-> 0]
    ELSE LET w == SinkWrite(st.sink, st.buf, limit) IN
         IF w.err # 0
         THEN [buf |-> Drop(st.buf, w.n), err |-> w.err, sink |-> w.sink, ret |-> w.err]
         ELSE [buf |-> <<>>, err |-> 0, sink |-> w.sink, ret |-> 0]

\* bufio.Writer.Write(p) on st = [buf, err, sink] with a buffer of size bytes.
BufioWrite(st, p, size, limit) ==
    LET RECURSIVE Go(_, _, _)
        Go(cur, rest, nn) ==
            IF Len(rest) > size - Len(cur.buf) /\ cur.err = 0
            THEN IF Len(cur.buf) = 0
                 THEN \* Large write, empty buffer: write directly from p.
                      LET w == SinkWrite(cur.sink, rest, limit) IN
                      Go([buf |-> cur.buf, err |-> w.err, sink |-> w.sink],
                         Drop(rest, w.n), nn + w.n)
                 ELSE LET n  == size - Len(cur.buf)
                          f  == BufioFlush([buf |-> cur.buf \o Take(rest, n),
                                            err |-> cur.err, sink |-> cur.sink], limit)
                      IN Go([buf |-> f.buf, err |-> f.err, sink |-> f.sink],
                            Drop(rest, n), nn + n)
            ELSE IF cur.err # 0
            THEN [buf |-> cur.buf, err |-> cur.err, sink |-> cur.sink,
                  nn |-> nn, ret |-> cur.err]
            ELSE [buf |-> cur.buf \o rest, err |-> 0, sink |-> cur.sink,
                  nn |-> nn + Len(rest), ret |-> 0]
    IN Go(st, p, 0)

BwState == [buf |-> bwBuf, err |-> bwErr, sink |-> bwSink]

\* NewBufferWriteCloserSize(w, size) over a sink that may or may not be an
\* io.Closer and that fails once it holds bwLimit bytes (never, when the
\* limit is above MaxTotal).
InitBw ==
    /\ \E size \in (-1)..MaxBufSize : bwSize = BufSize(size)
    /\ bwHasClose \in BOOLEAN
    /\ bwLimit \in 0..(MaxTotal + 1)
    /\ bwBuf = <<>>
    /\ bwErr = 0
    /\ bwSink = <<>>
    /\ bwWritten = <<>>
    /\ bwSinkClosed = 0
    /\ ccKinds = BufferedClosers(bwHasClose)
    /\ ccFail = {}
    /\ ccPc = "idle"
    /\ ccIdx = 0
    /\ ccLog = <<>>
    /\ ccRet = -1
    /\ ccCalls = 0
    /\ lastOp = "none"

\* Write on the buffered sink: the embedded bufio.Writer's Write.
BufferedWrite(k) ==
    /\ ccPc = "idle"
    /\ Len(bwWritten) + k <= MaxTotal
    /\ LET r == BufioWrite(BwState, NextBytes(k), bwSize, bwLimit) IN
       /\ bwBuf' = r.buf
       /\ bwErr' = r.err
       /\ bwSink' = r.sink
    /\ bwWritten' = bwWritten \o NextBytes(k)
    /\ lastOp' = "write"
    /\ UNCHANGED <<ccKinds, ccFail, ccPc, ccIdx, ccLog, ccRet, ccCalls>>
    /\ UNCHANGED <<bwSize, bwLimit, bwHasClose, bwSinkClosed>>
    /\ UNCHANGED NotCc

\* The first closer, CloserFn(buf.Flush), returns.
CcCompleteFlush ==
    /\ ccPc = "in"
    /\ ccKinds[RangeOrder(ccIdx)] = "flush"
    /\ LET f == BufioFlush(BwState, bwLimit) IN
       /\ bwBuf' = f.buf
       /\ bwErr' = f.err
       /\ bwSink' = f.sink
       /\ CcAfter(f.ret)
    /\ UNCHANGED <<bwSize, bwLimit, bwHasClose, bwWritten, bwSinkClosed>>
    /\ UNCHANGED NotCc

\* The underlying sink's Close returns, with or without an error.
CcCompleteSink ==
    /\ ccPc = "in"
    /\ ccKinds[RangeOrder(ccIdx)] = "sink"
    /\ bwSinkClosed' = bwSinkClosed + 1
    /\ \E err \in {0, ErrSinkClose} : CcAfter(err)
    /\ UNCHANGED <<bwSize, bwBuf, bwErr, bwSink, bwLimit, bwHasClose, bwWritten>>
    /\ UNCHANGED NotCc

NextBw ==
    \/ CcClose
    \/ CcInvoke
    \/ CcCompleteFlush
    \/ CcCompleteSink
    \/ CcReturnNil
    \/ \E k \in 0..MaxWriteLen : BufferedWrite(k)

----------------------------------------------------------------------------
(* MultiFrameReader over slice readers: multiFrameReader.Read              *)

MaxReaders   == 3   \* readers handed to MultiFrameReader
MaxSubFrames == 2   \* frames held by one reader

\* The j-th frame of the i-th reader: every frame names its reader and its
\* place, so that any reordering shows.
SubFrame(i, j) == <<i, j>>

\* All the frames of the reader with n frames at place i.
SubFrames(i, n) == [j \in 1..n |-> SubFrame(i, j)]

\* A reader: a sliceFrameReader over n frames, or a reader that fails with
\* an error of its own after them.
SubReaders == [n : 0..MaxSubFrames, end : {"EOF", "Err"}]

InitMf ==
    /\ mfIn \in SeqsUpTo(SubReaders, MaxReaders)
    /\ mfReaders = [i \in DOMAIN mfIn |-> i]
    /\ mfPos = [i \in DOMAIN mfIn |-> 0]
    /\ mfOut = <<>>
    /\ mfRet = "none"
    /\ mfEof = {}
    /\ mfLate = {}
    /\ mfTouched = {}

\* A composite that drops its last reader when one is exhausted.
Rest_DropLast(rs) == SubSeq(rs, 1, Len(rs) - 1)

\* r.readers = r.readers[1:]
Rest(rs) == Tail(rs)

\* A composite that reads from the last of its readers.
Current_Last(rs) == rs[Len(rs)]

\* r.readers[0]
Current(rs) == Head(rs)

\* multiFrameReader.Read over the remaining readers rs with positions ps:
\* the loop drops readers that return io.EOF and returns the first frame or
\* other error it meets.
MultiRead(rs, ps) ==
    LET RECURSIVE Go(_, _, _)
        Go(r, eof, read) ==
            IF r = <<>>
            THEN [readers |-> r, pos |-> ps, frame |-> <<>>, err |-> "EOF",
                  eof |-> eof, read |-> read]
            ELSE LET id == Current(r) IN
                 IF ps[id] < mfIn[id].n
                 THEN [readers |-> r, pos |-> [ps EXCEPT ![id] = @ + 1],
                       frame |-> SubFrame(id, ps[id] + 1), err |-> "nil",
                       eof |-> eof, read |-> Append(read, id)]
                 ELSE IF mfIn[id].end = "EOF"
                 THEN Go(Rest(r), Append(eof, id), Append(read, id))
                 ELSE [readers |-> r, pos |-> ps, frame |-> <<>>,
                       err |-> mfIn[id].end, eof |-> eof, read |-> Append(read, id)]
    IN Go(rs, <<>>, <<>>)

\* The readers among read that had returned io.EOF before: those in before,
\* and those that occur in read after their own io.EOF in this call.
ReadLate(before, eof, read) ==
    {read[k] : k \in {k \in DOMAIN read :
                         \/ read[k] \in before
                         \/ \E j \in 1..(k - 1) : read[j] = read[k]
                                                   /\ read[k] \in Range(eof)}}

\* One Read of the composite.
MfRead ==
    /\ LET r == MultiRead(mfReaders, mfPos) IN
       /\ mfReaders' = r.readers
       /\ mfPos' = r.pos
       /\ mfOut' = IF r.err = "nil" THEN Append(mfOut, r.frame) ELSE mfOut
       /\ mfRet' = IF r.err = "nil" THEN "frame" ELSE r.err
       /\ mfEof' = mfEof \cup Range(r.eof)
       /\ mfLate' = mfLate \cup ReadLate(mfEof, r.eof, r.read)
       /\ mfTouched' = Range(r.read)
    /\ UNCHANGED mfIn
    /\ UNCHANGED NotMf

NextMf == MfRead

IdleMf ==
    /\ mfIn = <<>>
    /\ mfReaders = <<>>
    /\ mfPos = <<>>
    /\ mfOut = <<>>
    /\ mfRet = "idle"
    /\ mfEof = {}
    /\ mfLate = {}
    /\ mfTouched = {}

----------------------------------------------------------------------------
(* Newline-delimited writer and reader over one stream                     *)

MaxNlFrames     == 2   \* payloads written per run
MaxNlPayloadLen == 2   \* length of the enumerated payloads
MaxLongFrames   == 3   \* payloads written per run with lines at the limit
ScanBufLen      == 3   \* length of the scanner's buffer when scaled down

\* Payloads over an ordinary byte, the delimiter and a carriage return.
NlPayloads == SeqsUpTo(SrcBytes, MaxNlPayloadLen)

\* For a scanner buffer of ScanBufLen bytes: the longest payload it takes,
\* the shortest it does not, a short one and the empty one.
LongPayloads == {Rep(97, ScanBufLen - 1), Rep(97, ScanBufLen), <<97>>, <<>>}

\* A writer and a reader over an empty stream, the reader's scanner with a
\* buffer of bufSize bytes that cannot grow: scanner.Buffer(buf, 0).
InitNlWith(bufSize) ==
    /\ nlBufSize = bufSize
    /\ nlSink = <<>>
    /\ nlWritten = <<>>
    /\ nlFirst = TRUE
    /\ nlCounts = <<>>
    /\ nlPhase = "write"
    /\ nlSkip = FALSE
    /\ nlFrames = <<>>
    /\ nlErr = "nil"

\* buf := make([]byte, unit.Mebibyte)
InitNl == InitNlWith(Mebibyte)

\* The same with the buffer scaled down to ScanBufLen bytes, so that lines
\* at its limit can be enumerated.
InitNlScaled == InitNlWith(ScanBufLen)

\* A writer that puts the delimiter before every payload.
Separator_Always(first) == <<NL>>

\* A writer that never writes the delimiter.
Separator_None(first) == <<>>

\* What the writer puts before the payload: nothing on the first Write,
\* newline on every later one.
Separator(first) == IF first THEN <<>> ELSE <<NL>>

\* A writer that returns the count of the payload bytes alone.
WriteCount_PayloadOnly(written, n) == n

\* return n + written
WriteCount(written, n) == n + written

\* FrameWriter.Write(payload) on the newline writer.
NlWrite(payload) ==
    /\ nlPhase = "write"
    /\ nlSink' = nlSink \o Separator(nlFirst) \o payload
    /\ nlCounts' = Append(nlCounts,
                          WriteCount(Len(Separator(nlFirst)), Len(payload)))
    /\ nlFirst' = FALSE
    /\ nlWritten' = Append(nlWritten, payload)
    /\ UNCHANGED <<nlPhase, nlSkip, nlBufSize, nlFrames, nlErr>>
    /\ UNCHANGED NotNl

\* ReadAllFrames(NewNewlineDelimitedFrameReader(buf, skipEmpty)) over the
\* stream written so far.
NlReadAll(skipEmpty) ==
    /\ nlPhase = "write"
    /\ LET r == NewlineReadAllIn(nlSink, skipEmpty, nlBufSize) IN
       /\ nlFrames' = r.frames
       /\ nlErr' = r.err
    /\ nlSkip' = skipEmpty
    /\ nlPhase' = "done"
    /\ UNCHANGED <<nlSink, nlWritten, nlFirst, nlCounts, nlBufSize>>
    /\ UNCHANGED NotNl

\* The payloads a run may still write: those of ps until max are written.
Writable(ps, max) == IF Len(nlWritten) < max THEN ps ELSE {}

NextNl ==
    \/ \E p \in Writable(NlPayloads, MaxNlFrames) : NlWrite(p)
    \/ \E b \in BOOLEAN : NlReadAll(b)

NextNlLong ==
    \/ \E p \in Writable(LongPayloads, MaxLongFrames) : NlWrite(p)
    \/ \E b \in BOOLEAN : NlReadAll(b)

IdleNl ==
    /\ nlSink = <<>>
    /\ nlWritten = <<>>
    /\ nlFirst = TRUE
    /\ nlCounts = <<>>
    /\ nlPhase = "idle"
    /\ nlSkip = FALSE
    /\ nlBufSize = 0
    /\ nlFrames = <<>>
    /\ nlErr = "nil"

----------------------------------------------------------------------------
(* errors.NewErrors and the composite error Errors                         *)

MaxErrArgs == 4    \* arguments per call of NewErrors

\* Error values: the nil error, two distinct errors, and a composite.
NilErr == [kind |-> "nil"]
PlainErr(id) == [kind |-> "error", id |-> id]
Composite(errs) == [kind |-> "Errors", errs |-> errs]

ErrVals == {NilErr, PlainErr(1), PlainErr(2),
            Composite(<<PlainErr(2), PlainErr(1)>>)}

\* A composite that unwraps to its last error.
Unwrap_Last(e) == e.errs[Len(e.errs)]

\* (*Errors).Unwrap: only the first error.
Unwrap(e) == e.errs[1]

\* (*Errors).Errors
ErrorsOf(e) == e.errs

\* NewErrors(errs...): the loop that keeps the non-nil arguments, then the
\* switch on how many were kept.
NewErrors(errs) ==
    LET RECURSIVE Keep(_, _)
        Keep(i, errors) ==
            IF i > Len(errs) THEN errors
            ELSE IF errs[i] # NilErr THEN Keep(i + 1, Append(errors, errs[i]))
            ELSE Keep(i + 1, errors)
        errors == Keep(1, <<>>)
    IN IF Len(errors) = 0 THEN NilErr
       ELSE IF Len(errors) = 1 THEN errors[1]
       ELSE Composite(errors)

InitNe ==
    /\ neArgs \in SeqsUpTo(ErrVals, MaxErrArgs)
    /\ neCalled = FALSE
    /\ neRet = NilErr

\* One call NewErrors(neArgs...).
NewErrorsCall ==
    /\ ~neCalled
    /\ neRet' = NewErrors(neArgs)
    /\ neCalled' = TRUE
    /\ UNCHANGED neArgs
    /\ UNCHANGED NotNe

NextNe == NewErrorsCall

IdleNe ==
    /\ neArgs = <<>>
    /\ neCalled = FALSE
    /\ neRet = NilErr

----------------------------------------------------------------------------
(* lifecycle.MaybeGracefulShutdown                                         *)

\* The objects handed to the call: a *grpc.Server, a value that implements
\* GracefulShutdown, and any other value (a map in the test).
MgObjects == {"grpc", "graceful", "other"}

\* A live context, a cancelled one, and one whose deadline has passed.
MgContexts == {"live", "Canceled", "DeadlineExceeded"}

\* Shutdown implementations: one that succeeds, failShutdown, and basic.
MgShutdowns == {"nil", "errShutdown", "ctxErr"}

\* ctx.Err()
CtxErr(ctx) == IF ctx = "live" THEN "nil" ELSE ctx

\* s.Shutdown(ctx) for the implementation shut.
ShutdownResult(shut, ctx) == IF shut = "ctxErr" THEN CtxErr(ctx) ELSE shut

\* A dispatch that finds no object implementing the interface.
IsGracefulShutdown_Never(obj) == FALSE

\* i.(GracefulShutdown)
IsGracefulShutdown(obj) == obj = "graceful"

\* i.(*grpc.Server)
IsGrpcServer(obj) == obj = "grpc"

InitMg ==
    /\ mgObj \in MgObjects
    /\ mgCtx \in MgContexts
    /\ mgShut \in MgShutdowns
    /\ mgStops \in BOOLEAN
    /\ mgCalls = <<>>
    /\ mgCalled = FALSE
    /\ mgRet = "nil"

\* GracefulShutdownGrpcServer: GracefulStop is started, then the select
\* takes whichever of done and ctx.Done() is ready; with neither ready the
\* call does not return.
GrpcShutdown ==
    /\ IsGrpcServer(mgObj)
    /\ \/ /\ mgStops
          /\ mgCalls' = <<"GracefulStop">>
          /\ mgRet' = "nil"
       \/ /\ mgCtx # "live"
          /\ mgCalls' = <<"GracefulStop", "Stop">>
          /\ mgRet' = CtxErr(mgCtx)

\* MaybeGracefulShutdown(ctx, i), one call.
MaybeGracefulShutdown ==
    /\ ~mgCalled
    /\ mgCalled' = TRUE
    /\ IF IsGrpcServer(mgObj) THEN GrpcShutdown
       ELSE IF IsGracefulShutdown(mgObj)
       THEN /\ mgCalls' = <<"Shutdown">>
            /\ mgRet' = ShutdownResult(mgShut, mgCtx)
       ELSE /\ mgCalls' = <<>>
            /\ mgRet' = CtxErr(mgCtx)
    /\ UNCHANGED <<mgObj, mgCtx, mgShut, mgStops>>
    /\ UNCHANGED NotMg

NextMg == MaybeGracefulShutdown

IdleMg ==
    /\ mgObj = "other"
    /\ mgCtx = "live"
    /\ mgShut = "nil"
    /\ mgStops = FALSE
    /\ mgCalls = <<>>
    /\ mgCalled = FALSE
    /\ mgRet = "nil"

IdleSv ==
    /\ svServe = "idle"
    /\ svShut = "idle"
    /\ svCtxDone = FALSE
    /\ svSignal = FALSE
    /\ svBuf = <<>>
    /\ svClosed = FALSE
    /\ svRecv = <<>>
    /\ svRecvClosed = FALSE
    /\ svPanic = FALSE

----------------------------------------------------------------------------
(* lifecycle.ServeWithGracefulShutdown                                     *)

\* shutdownCompleted := make(chan error, 1)
ChanCap == 1

\* The state when ServeWithGracefulShutdown has returned the channel: both
\* goroutines are started, nothing is sent, the context is live.
InitSv ==
    /\ svServe = "serving"
    /\ svShut = "select"
    /\ svCtxDone = FALSE
    /\ svSignal = FALSE
    /\ svBuf = <<>>
    /\ svClosed = FALSE
    /\ svRecv = <<>>
    /\ svRecvClosed = FALSE
    /\ svPanic = FALSE

\* The context handed in by the caller is cancelled.
SvParentCancel ==
    /\ ~svPanic /\ ~svCtxDone
    /\ svCtxDone' = TRUE
    /\ UNCHANGED <<svServe, svShut, svSignal, svBuf, svClosed, svRecv, svRecvClosed,
                   svPanic>>
    /\ UNCHANGED NotSv

\* SIGINT or SIGTERM is delivered to signals.
SvSignalArrives ==
    /\ ~svPanic /\ ~svSignal /\ svShut = "select"
    /\ svSignal' = TRUE
    /\ UNCHANGED <<svServe, svShut, svCtxDone, svBuf, svClosed, svRecv, svRecvClosed,
                   svPanic>>
    /\ UNCHANGED NotSv

\* server.Serve(listen) returns, with an error or with nil.
SvServeReturns(failed) ==
    /\ ~svPanic /\ svServe = "serving"
    /\ svServe' = IF failed THEN "failed" ELSE "done"
    /\ UNCHANGED <<svShut, svCtxDone, svSignal, svBuf, svClosed, svRecv, svRecvClosed,
                   svPanic>>
    /\ UNCHANGED NotSv

\* cancel() in the serve goroutine.
SvCancel ==
    /\ ~svPanic /\ svServe = "failed"
    /\ svCtxDone' = TRUE
    /\ svServe' = "cancelled"
    /\ UNCHANGED <<svShut, svSignal, svBuf, svClosed, svRecv, svRecvClosed, svPanic>>
    /\ UNCHANGED NotSv

\* A send that goes through although the channel is closed.
SendPanics_Never == FALSE

\* A send on a closed channel panics.
SendPanics == svClosed

\* shutdownCompleted <- "Server failed to listen: ..." in the serve
\* goroutine: it blocks while the buffer is full.
SvSend ==
    /\ ~svPanic /\ svServe = "cancelled"
    /\ IF SendPanics
       THEN svPanic' = TRUE /\ svServe' = "panic" /\ svBuf' = svBuf
       ELSE /\ Len(svBuf) < ChanCap
            /\ svBuf' = Append(svBuf, "ServeFailed")
            /\ svServe' = "done"
            /\ svPanic' = svPanic
    /\ UNCHANGED <<svShut, svCtxDone, svSignal, svClosed, svRecv, svRecvClosed>>
    /\ UNCHANGED NotSv

\* The select of the shutdown goroutine takes ctx.Done() or a signal.
ShSelect ==
    /\ ~svPanic /\ svShut = "select"
    /\ svCtxDone \/ svSignal
    /\ svShut' = "shutdown"
    /\ svSignal' = IF svCtxDone THEN svSignal ELSE FALSE
    /\ UNCHANGED <<svServe, svCtxDone, svBuf, svClosed, svRecv, svRecvClosed, svPanic>>
    /\ UNCHANGED NotSv

\* MaybeGracefulShutdown(ctx, server) returns, with an error or with nil.
ShShutdown(unclean) ==
    /\ ~svPanic /\ svShut = "shutdown"
    /\ svShut' = IF unclean THEN "send" ELSE "closing"
    /\ UNCHANGED <<svServe, svCtxDone, svSignal, svBuf, svClosed, svRecv, svRecvClosed,
                   svPanic>>
    /\ UNCHANGED NotSv

\* shutdownCompleted <- "Unclean shutdown ..." in the shutdown goroutine.
ShSend ==
    /\ ~svPanic /\ svShut = "send"
    /\ Len(svBuf) < ChanCap
    /\ svBuf' = Append(svBuf, "Unclean")
    /\ svShut' = "closing"
    /\ UNCHANGED <<svServe, svCtxDone, svSignal, svClosed, svRecv, svRecvClosed, svPanic>>
    /\ UNCHANGED NotSv

\* The deferred close(shutdownCompleted).
ShClose ==
    /\ ~svPanic /\ svShut = "closing"
    /\ svClosed' = TRUE
    /\ svShut' = "done"
    /\ UNCHANGED <<svServe, svCtxDone, svSignal, svBuf, svRecv, svRecvClosed, svPanic>>
    /\ UNCHANGED NotSv

\* The receiver takes the next value off the channel, or finds it closed
\* and empty.
SvReceive ==
    /\ ~svPanic /\ ~svRecvClosed
    /\ IF svBuf # <<>>
       THEN /\ svRecv' = Append(svRecv, Head(svBuf))
            /\ svBuf' = Tail(svBuf)
            /\ svRecvClosed' = svRecvClosed
       ELSE /\ svClosed
            /\ svRecvClosed' = TRUE
            /\ UNCHANGED <<svRecv, svBuf>>
    /\ UNCHANGED <<svServe, svShut, svCtxDone, svSignal, svClosed, svPanic>>
    /\ UNCHANGED NotSv

NextSv ==
    \/ SvParentCancel
    \/ SvSignalArrives
    \/ \E failed \in BOOLEAN : SvServeReturns(failed)
    \/ SvCancel
    \/ SvSend
    \/ ShSelect
    \/ \E unclean \in BOOLEAN : ShShutdown(unclean)
    \/ ShSend
    \/ ShClose
    \/ SvReceive

IdleLc == IdleMg /\ IdleSv

IdleExt == IdleMf /\ IdleNl /\ IdleNe /\ IdleLc

----------------------------------------------------------------------------
(* Specifications                                                          *)

IdleFrame ==
    /\ sink = <<>>
    /\ expected = <<>>
    /\ phase = "idle"
    /\ rpos = 0
    /\ rcap = 0
    /\ frames = <<>>
    /\ rerr = "nil"
    /\ rbufs = <<>>
    /\ held = <<>>
    /\ wcounts = <<>>
    /\ Toolchain

IdleChunk ==
    /\ src = <<>>
    /\ chunkSize = 0
    /\ srcPos = 0
    /\ rNil = FALSE
    /\ prev = <<>>
    /\ chunks = <<>>
    /\ ckRet = "idle"
    /\ ckFailed = FALSE
    /\ heap = <<>>
    /\ prevAt = NilSlice
    /\ cursors = <<>>
    /\ srcErr = "EOF"
    /\ racPhase = "idle"
    /\ racReaders = <<>>
    /\ racErr = "nil"

IdleCw ==
    /\ cwSink = <<>>
    /\ cwMu = 0
    /\ cwPc = <<>>
    /\ cwCur = <<>>
    /\ cwDone = <<>>
    /\ cwErr = <<>>

IdleCo ==
    /\ coPc = <<>>
    /\ coDone = FALSE
    /\ coMu = 0
    /\ coErr = 0
    /\ coUnder = "idle"
    /\ coCount = 0
    /\ coResult = 0
    /\ coRet = <<>>

IdleCc ==
    /\ ccKinds = <<>>
    /\ ccFail = {}
    /\ ccPc = "off"
    /\ ccIdx = 0
    /\ ccLog = <<>>
    /\ ccRet = -1
    /\ ccCalls = 0
    /\ lastOp = "none"

\* The length-prefixed codec: a writer, then ReadAllFrames over a reader.
Init == InitFrame /\ IdleChunk /\ IdleCw /\ IdleCo /\ IdleCc /\ IdleBw /\ IdleExt
Next == NextFrame
Spec == Init /\ [][Next]_vars

\* The length-prefixed reader draining a stream that was cut short.
TruncNext ==
    \/ NextFrame
    \/ \E k \in 0..Len(sink) : ReadAllFramesTruncated(k)
SpecTrunc == Init /\ [][TruncNext]_vars

\* A caller reading the length-prefixed stream frame by frame and keeping
\* every frame it is given.
HeldNext ==
    \/ \E p \in Payloads : Write(p)
    \/ ReadFrame
SpecHeld == Init /\ [][HeldNext]_vars

\* The chunk splitter over a newline-delimited source.
ChunkInit == IdleFrame /\ InitChunk /\ IdleCw /\ IdleCo /\ IdleCc /\ IdleBw /\ IdleExt
ChunkNext == NextChunk
SpecChunk == ChunkInit /\ [][ChunkNext]_vars

\* The chunk splitter with its cursors read in any order, between and after
\* the NextChunk calls.
CursorNext ==
    \/ NextChunk
    \/ \E i \in 1..(MaxSrcLen + 1) : CursorRead(i)
SpecCursor == ChunkInit /\ [][CursorNext]_vars

\* The chunk splitter over a source that ends with io.EOF or fails.
SrcErrInit ==
    IdleFrame /\ InitSplitter(SrcErrs) /\ IdleCw /\ IdleCo /\ IdleCc /\ IdleBw /\ IdleExt
SrcErrNext == NextChunk
SpecSrcErr == SrcErrInit /\ [][SrcErrNext]_vars

\* The drain helpers: ReadAllFrames over a length-prefixed stream, whole or
\* cut short, or ReadAllChunks over a splitter whose source may fail.
DrainInit == Init \/ SrcErrInit
DrainNext == TruncNext \/ ReadAllChunksStep
SpecDrain == DrainInit /\ [][DrainNext]_vars

\* Producers writing through one ConcurrentFrameWriter.
CwInit == IdleFrame /\ IdleChunk /\ InitCw /\ IdleCo /\ IdleCc /\ IdleBw /\ IdleExt
CwNext == NextCw
SpecCw == CwInit /\ [][CwNext]_vars

\* The same producers over a sink whose writes may fail.  Every started step
\* is eventually taken: a producer waiting in mu.Lock() gets the mutex once
\* it stays free, every sink write ends (written or failed), and the
\* deferred unlock runs.
CwFailNext ==
    \/ NextCw
    \/ \E p \in Producers : CwWriteFails(p)
CwFair ==
    \A p \in Producers :
        /\ WF_vars(CwLock(p))
        /\ WF_vars(CwWritePrefix(p) \/ CwWritePayload(p) \/ CwWriteFails(p))
        /\ WF_vars(CwUnlock(p))
SpecCwLive == CwInit /\ [][CwFailNext]_vars /\ CwFair

\* Callers closing one SafeCloser wrapper.
CoInit == IdleFrame /\ IdleChunk /\ IdleCw /\ InitCo /\ IdleCc /\ IdleBw /\ IdleExt
CoNext == NextCo
SpecCo == CoInit /\ [][CoNext]_vars

\* A chained closer over a plain buffer.
CcInit == IdleFrame /\ IdleChunk /\ IdleCw /\ IdleCo /\ InitCc /\ IdleExt
CcNext == NextCc
SpecCc == CcInit /\ [][CcNext]_vars

\* The buffered sink.
BwInit == IdleFrame /\ IdleChunk /\ IdleCw /\ IdleCo /\ InitBw /\ IdleExt
BwNext == NextBw
SpecBw == BwInit /\ [][BwNext]_vars


\* One MultiFrameReader read until long after its end.
MfInit ==
    IdleFrame /\ IdleChunk /\ IdleCw /\ IdleCo /\ IdleCc /\ IdleBw /\ InitMf /\ IdleNl
    /\ IdleNe /\ IdleLc
MfNext == NextMf
SpecMf == MfInit /\ [][MfNext]_vars

\* The newline writer and reader over short payloads of any bytes.
NlInit ==
    IdleFrame /\ IdleChunk /\ IdleCw /\ IdleCo /\ IdleCc /\ IdleBw /\ IdleMf /\ InitNl
    /\ IdleNe /\ IdleLc
NlNext == NextNl
SpecNl == NlInit /\ [][NlNext]_vars

\* The newline writer and reader over lines at the limit of the reader's
\* buffer.
NlLongInit ==
    /\ IdleFrame /\ IdleChunk /\ IdleCw /\ IdleCo /\ IdleCc /\ IdleBw /\ IdleMf
    /\ InitNlScaled /\ IdleNe /\ IdleLc
NlLongNext == NextNlLong
SpecNlLong == NlLongInit /\ [][NlLongNext]_vars

\* The payloads written to the newline writer next to a length-prefixed writer.
CountedNlPayloads == {<<>>, <<97>>}

\* A length-prefixed writer and a newline writer, each over its own sink,
\* written to in any interleaving.
WritersInit ==
    /\ InitFrame /\ IdleChunk /\ IdleCw /\ IdleCo /\ IdleCc /\ IdleBw /\ IdleMf
    /\ InitNl /\ IdleNe /\ IdleLc
WritersNext ==
    \/ \E p \in Payloads : Write(p)
    \/ \E p \in Writable(CountedNlPayloads, MaxNlFrames) : NlWrite(p)
SpecWriters == WritersInit /\ [][WritersNext]_vars

\* NewErrors called once on every argument list of up to MaxErrArgs errors.
NeInit ==
    /\ IdleFrame /\ IdleChunk /\ IdleCw /\ IdleCo /\ IdleCc /\ IdleBw
    /\ IdleMf /\ IdleNl /\ InitNe /\ IdleLc
NeNext == NextNe
SpecNe == NeInit /\ [][NeNext]_vars

\* The other subsystems of the io and errors packages, not constructed.
IdleIo ==
    /\ IdleFrame /\ IdleChunk /\ IdleCw /\ IdleCo /\ IdleCc /\ IdleBw
    /\ IdleMf /\ IdleNl /\ IdleNe

\* MaybeGracefulShutdown called once on every object, context and Shutdown.
MgInit == IdleIo /\ InitMg /\ IdleSv
MgNext == NextMg
SpecMg == MgInit /\ [][MgNext]_vars

\* Payloads around the initial size of the reader's buffer.
GrowPayloads == {<<1>>, Rep(1, varlenFrameReaderBufferSize),
                 Rep(1, varlenFrameReaderBufferSize + 1)}

\* The length-prefixed writer and reader over such payloads, the stream read
\* whole or cut short.
GrowNext ==
    \/ \E p \in GrowPayloads : Write(p)
    \/ ReadAllFramesStart
    \/ \E k \in 0..Len(sink) : ReadAllFramesTruncated(k)
    \/ ReadAllFramesStep
SpecGrow == Init /\ [][GrowNext]_vars

\* ServeWithGracefulShutdown with a receiver draining the returned channel.
SvInit == IdleIo /\ IdleMg /\ InitSv
SvNext == NextSv
SpecSv == SvInit /\ [][SvNext]_vars

----------------------------------------------------------------------------
(* Properties                                                              *)


CountIn(seq, x) == Cardinality({i \in DOMAIN seq : seq[i] = x})

\* C1: writing any sequence of payloads (the empty sequence, empty payloads
\* and payloads with a multi-byte length prefix included) with the
\* length-prefixed writer and draining the length-prefixed reader with
\* ReadAllFrames returns exactly the written sequence, in order, and no error.
C1_VarLenRoundTrip ==
    phase = "done" => (rerr = "nil" /\ frames = expected)

C1_Witness ==
    /\ phase = "done"
    /\ Len(expected) = 3
    /\ <<>> \in Range(expected)
    /\ Rep(1, LongLen) \in Range(expected)
    /\ frames = expected

\* The length of the longest frame of s: the longest run of bytes that holds
\* no delimiter.
MaxFrameLen(s) ==
    LET runs == {n \in 0..Len(s) :
                    \E i \in 0..(Len(s) - n) : \A m \in (i + 1)..(i + n) : s[m] # NL}
    IN CHOOSE r \in runs : \A q \in runs : q <= r

\* C2: for any newline-delimited stream and any chunk size at least the
\* largest frame (counted with its delimiter), once the splitter has
\* reported end-of-stream the frames of all chunk cursors, drained in chunk
\* order, are the frames of the stream decoded directly in skip-empty mode.
C2_ChunkStreamEquivalence ==
    (ckRet = "EOF" /\ chunkSize >= MaxFrameLen(src) + 1)
        => ChunkFrames(chunks) = DirectFrames(src)

\* The bytes of the carry located after its leading delimiter.
CarryTail(carry) ==
    IF carry # <<>> /\ carry[1] = NL THEN Tail(carry) ELSE carry

\* C3: the bytes after the last delimiter of the read that hit end-of-input
\* are delivered as a final chunk before end-of-stream is reported: the
\* splitter never reports end-of-stream while it still holds such bytes.
C3_FinalCarryDelivered ==
    ckRet = "EOF" => CarryTail(prev) = <<>>

CwAllIdle == \A p \in Producers : cwPc[p] = "idle"

\* C4: whenever no Write is in progress the sink decodes, as a
\* length-prefixed stream, to exactly the frames written so far, each
\* byte-identical to a written payload; once every producer has written its M
\* frames these are N*M frames.
C4_ConcurrentWriterDecodable ==
    CwAllIdle =>
        LET r   == VarLenReadAll(cwSink)
            all == Concat([p \in Producers |-> cwDone[p]])
        IN /\ r.err = "nil"
           /\ Len(r.frames) = Len(all)
           /\ \A x \in Range(all) \cup Range(r.frames) :
                  CountIn(r.frames, x) = CountIn(all, x)
           /\ (\A p \in Producers : Len(cwDone[p]) = FramesPerProducer)
                  => Len(r.frames) = NumProducers * FramesPerProducer

C4_Witness ==
    /\ CwAllIdle
    /\ \A p \in Producers : Len(cwDone[p]) = FramesPerProducer
    /\ LET r == VarLenReadAll(cwSink) IN
       /\ Len(r.frames) = NumProducers * FramesPerProducer
       /\ r.frames[1] = CwPayload(2, 1)
       /\ r.frames[2] = CwPayload(1, 1)
       /\ r.frames[3] = CwPayload(2, 2)

CoReturned == {<<c, i>> \in Callers \X (1..CallsPerCaller) : i <= Len(coRet[c])}

\* C5: under any interleaving of concurrent and repeated Close calls on the
\* wrapper the underlying Close is entered at most once, and exactly once as
\* soon as any call has returned.
C5_UnderlyingCloseOnce ==
    /\ coCount <= 1
    /\ CoReturned # {} => coCount = 1

C5_Witness ==
    /\ \A c \in Callers : Len(coRet[c]) = 2
    /\ coCount = 1

\* C6: every Close call on the wrapper returns the result the single
\* underlying Close produced, and returns only after that Close completed.
C6_SameResultAfterCompletion ==
    \A ci \in CoReturned :
        /\ coRet[ci[1]][ci[2]].err = coResult
        /\ coRet[ci[1]][ci[2]].under = "closed"

C6_Witness ==
    /\ \A c \in Callers : Len(coRet[c]) = 2
    /\ \A ci \in CoReturned : coRet[ci[1]][ci[2]].err = 1
    /\ coResult = 1

CcStarted == {ccLog[k].i : k \in {j \in DOMAIN ccLog : ccLog[j].ev = "start"}}

CcEnded == {ccLog[k].i : k \in {j \in DOMAIN ccLog : ccLog[j].ev = "end"}}

\* C7: a Close call invokes the closers in declaration order, each returning
\* before the next is invoked (the events of the call are start 1, end 1,
\* start 2, end 2, ...), and before Close is called no closer is invoked,
\* whatever has been written.
C7_ClosersInDeclarationOrder ==
    /\ \A k \in DOMAIN ccLog :
          /\ ccLog[k].ev = (IF k % 2 = 1 THEN "start" ELSE "end")
          /\ ccLog[k].i = (k + 1) \div 2
    /\ ccCalls = 0 => ccLog = <<>>

C7_Witness ==
    /\ ccPc = "idle"
    /\ ccCalls = 1
    /\ Len(ccLog) = 6
    /\ bwWritten # <<>>

\* C8: a Close call that has returned either found no failing closer, invoked
\* all n closers and returned nil, or returned the error of the first failing
\* closer i and invoked none of the closers after i.
C8_FirstErrorStops ==
    (ccPc = "idle" /\ ccCalls > 0) =>
        IF ccFail = {}
        THEN /\ ccRet = 0
             /\ CcStarted = 1..Len(ccKinds)
             /\ CcEnded = 1..Len(ccKinds)
        ELSE LET i == CHOOSE x \in ccFail : \A y \in ccFail : x <= y IN
             /\ ccRet = i
             /\ CcStarted = 1..i
             /\ CcEnded = 1..i

C8_Witness ==
    /\ ccPc = "idle"
    /\ ccCalls > 0
    /\ Len(ccKinds) = 3
    /\ ccFail = {2, 3}
    /\ ccRet = 2

CcKindEvents(ev, kind) ==
    {k \in DOMAIN ccLog : ccLog[k].ev = ev /\ ccKinds[ccLog[k].i] = kind}

\* C9: Close on the buffered sink flushes first; the sink's Close is invoked
\* only after a flush that succeeded; when the flush fails Close returns the
\* flush error and the sink's Close is not invoked; a sink that is no
\* io.Closer is never closed.
C9_FlushThenClose ==
    /\ ccLog # <<>> => (ccLog[1].ev = "start" /\ ccKinds[ccLog[1].i] = "flush")
    /\ \A k \in CcKindEvents("start", "sink") :
          \E j \in CcKindEvents("end", "flush") : j < k /\ ccLog[j].err = 0
    /\ \A j \in CcKindEvents("end", "flush") :
          ccLog[j].err # 0 =>
              /\ CcKindEvents("start", "sink") = {}
              /\ ccPc = "idle" /\ ccRet = ccLog[j].err
    /\ ~bwHasClose => bwSinkClosed = 0
    /\ bwSinkClosed <= ccCalls

C9_Witness ==
    /\ ccPc = "idle"
    /\ lastOp = "close"
    /\ bwHasClose
    /\ ccRet = ErrSinkWrite
    /\ bwSinkClosed = 0
    /\ bwBuf # <<>>

\* C10: the sink's content is always a prefix of the bytes written so far;
\* before any Close it is empty while fewer bytes than the buffer size have
\* been written; and when Close has returned nil it is exactly the bytes
\* written, in write order.
C10_SinkPrefixOfWritten ==
    /\ IsPrefix(bwSink, bwWritten)
    /\ (ccCalls = 0 /\ Len(bwWritten) < bwSize) => bwSink = <<>>
    /\ (ccPc = "idle" /\ lastOp = "close" /\ ccRet = 0) => bwSink = bwWritten

C10_Witness ==
    /\ ccPc = "idle"
    /\ lastOp = "close"
    /\ ccRet = 0
    /\ bwSize = 2
    /\ Len(bwWritten) = 3
    /\ bwSink = bwWritten


\* C11: the constructor rejects every chunk size that is zero or negative
\* with InvalidArgErr and yields no splitter; only strictly positive sizes
\* yield one.
C11_RejectsNonPositiveChunkSize ==
    /\ chunkSize <= 0 => ckRet = "InvalidArgErr"
    /\ chunkSize > 0 => ckRet # "InvalidArgErr"

\* The window the next NextChunk call reads: up to chunkSize bytes of the
\* source after the bytes already read.
Window == SubSeq(src, srcPos + 1, srcPos + Min(chunkSize, Len(src) - srcPos))

\* C12: a NextChunk call whose read window is full-size (chunkSize bytes,
\* not shortened by end-of-input) and holds no delimiter returns
\* NoFrameFoundErr and no cursor.
C12_FullWindowWithoutDelimiterFails ==
    [][(~rNil /\ Len(Window) = chunkSize /\ LastIndexByte(Window, NL) = 0)
          => (ckRet' = "NoFrameFoundErr" /\ chunks' = chunks)]_vars

C12_Witness ==
    /\ ckRet = "NoFrameFoundErr"
    /\ chunkSize >= 1
    /\ srcPos = chunkSize
    /\ Len(src) > chunkSize
    /\ chunks = <<>>

\* C18: once the splitter has seen the end of its source every NextChunk call
\* returns end-of-stream and reads nothing; end-of-stream is returned only in
\* that state, so no chunk follows it.
C18_ExhaustedStaysExhausted ==
    [][/\ rNil => (rNil' /\ ckRet' = "EOF" /\ srcPos' = srcPos /\ chunks' = chunks)
       /\ ckRet = "EOF" => rNil]_vars

C18_Witness ==
    /\ rNil
    /\ ckRet = "EOF"
    /\ Len(chunks) >= 2
    /\ srcPos = Len(src)

\* C19: after NextChunk has returned an error other than end-of-stream no
\* later NextChunk call returns a chunk.
C19_NoChunkAfterError ==
    ckFailed => ckRet # "chunk"


\* The stream the writer produces for the payloads fs.
Encoded(fs) == Concat([i \in DOMAIN fs |-> VarLenFrame(fs[i])])

\* C13: ReadAllFrames over a length-prefixed stream that ends inside a frame
\* (inside its prefix, or after a complete prefix with fewer payload bytes
\* left than declared, none included) returns io.ErrUnexpectedEOF; the read
\* ends without error only when the stream ends between frames.  It fails
\* for a stream that ends inside a prefix of two bytes or more when
\* binary.ReadUvarint returns io.EOF there.
C13_TruncationIsUnexpectedEOF ==
    phase = "done" =>
        IF \E j \in 0..Len(expected) : sink = Encoded(Take(expected, j))
        THEN rerr = "nil" /\ Encoded(frames) = sink
        ELSE rerr = "ErrUnexpectedEOF" /\ frames = <<>>

\* The bytes a held frame shows now: the slice still views its array.
HeldBytes(h) == Take(rbufs[h.arr], h.len)

\* C14: a frame returned by Read is not modified by any later Read on the
\* same reader.
C14_ReturnedFrameIsStable ==
    \A i \in DOMAIN held : HeldBytes(held[i]) = held[i].got


\* C15: as long as no NextChunk call has failed, the frames of the chunks
\* returned so far, in chunk order, are the first frames of the directly
\* decoded source: each is one whole frame, none is a fragment or a merge.
C15_ChunksHoldWholeFrames ==
    ~ckFailed => IsPrefix(ChunkFrames(chunks), DirectFrames(src))

C15_Witness ==
    /\ ~ckFailed
    /\ Len(chunks) >= 2
    /\ Len(DirectFrames(src)) >= 2
    /\ chunkSize >= 2
    /\ \E f \in Range(ChunkFrames(<<chunks[2]>>)) : Len(f) >= chunkSize

\* C16: the call that finds the source exhausted without reading a byte
\* (an empty source included) does not return a chunk that yields no frame.
C16_NoPhantomChunk ==
    (chunkSize > 0 /\ rNil /\ ckRet = "chunk" /\ Len(src) % chunkSize = 0)
        => ChunkFrames(<<chunks[Len(chunks)]>>) # <<>>

\* The frame of a source that holds one frame, with or without a delimiter
\* after it.
SingleFrameOf(s) ==
    IF s # <<>> /\ s[Len(s)] = NL THEN Take(s, Len(s) - 1) ELSE s

\* s holds exactly one frame the newline format carries unchanged: not
\* empty, no delimiter inside, no trailing carriage return.
HoldsSingleFrame(s) ==
    LET f == SingleFrameOf(s) IN
    f # <<>> /\ NL \notin Range(f) /\ f[Len(f)] # CR

\* C17: for a source that holds a single frame, with or without one trailing
\* delimiter, and a chunk size larger than the source, the chunks returned up
\* to end-of-stream yield exactly that frame.
C17_SingleFrameSource ==
    (ckRet = "EOF" /\ chunkSize > Len(src) /\ HoldsSingleFrame(src))
        => ChunkFrames(chunks) = <<SingleFrameOf(src)>>

C17_Witness ==
    /\ ckRet = "EOF"
    /\ chunkSize > Len(src)
    /\ HoldsSingleFrame(src)
    /\ Len(src) >= 3
    /\ src[Len(src)] = NL


\* C20: whatever the order of Reads on the cursors and of further NextChunk
\* calls, the frames a chunk cursor has returned are the first frames of its
\* chunk as decoded alone, and all of them once it has returned end-of-stream.
C20_CursorsAreIndependent ==
    /\ Len(cursors) = Len(chunks)
    /\ \A i \in DOMAIN cursors :
          /\ IsPrefix(cursors[i].out, ChunkFrames(<<chunks[i]>>))
          /\ cursors[i].eof => cursors[i].out = ChunkFrames(<<chunks[i]>>)

C20_Witness ==
    /\ Len(cursors) >= 3
    /\ cursors[3].out # <<>>
    /\ ~cursors[3].eof
    /\ cursors[2].out = <<>>
    /\ ChunkFrames(<<chunks[2]>>) # <<>>
    /\ cursors[1].eof
    /\ cursors[1].out # <<>>



\* C21: a NextChunk call whose read of the source fails with an error other
\* than end-of-input returns that error and no chunk, and leaves the splitter
\* not exhausted; only the end of the source makes it exhausted.
C21_SourceErrorIsReturned ==
    [][(/\ ckRet # "InvalidArgErr"
        /\ ~rNil
        /\ srcErr # "EOF"
        /\ Len(src) - srcPos < chunkSize)
          => (ckRet' = srcErr /\ chunks' = chunks /\ ~rNil')]_vars


\* The frames of all readers, reader after reader.
AllSubFrames == Concat([i \in DOMAIN mfIn |-> SubFrames(i, mfIn[i].n)])

\* C22: a MultiFrameReader over readers that end with end-of-stream returns
\* the frames of the first reader, then of the second, and so on, each in
\* its own order, and after them end-of-stream on every Read; with no reader
\* the first Read returns end-of-stream.
C22_MultiReaderConcatenates ==
    (\A i \in DOMAIN mfIn : mfIn[i].end = "EOF") =>
        /\ IsPrefix(mfOut, AllSubFrames)
        /\ mfRet = "EOF" => mfOut = AllSubFrames
        /\ mfRet = "frame" => mfOut # <<>>
        /\ mfRet \in {"none", "frame", "EOF"}

C22_Witness ==
    /\ mfRet = "EOF"
    /\ Len(mfIn) = 3
    /\ \A i \in DOMAIN mfIn : mfIn[i].end = "EOF"
    /\ mfIn[1].n = 2
    /\ mfIn[2].n = 0
    /\ mfIn[3].n = 2
    /\ mfOut = AllSubFrames


\* C23: ReadAllFrames and ReadAllChunks return, with a nil error, everything
\* their reader or splitter yields up to end-of-stream, in order; when it
\* yields any other error they return that error and nothing of what they
\* had collected.
C23_DrainAllOrNothing ==
    /\ phase = "done" =>
          IF rerr = "nil"
          THEN \E j \in 0..Len(expected) :
                  /\ frames = Take(expected, j)
                  /\ IsPrefix(Encoded(frames), sink)
                  /\ j < Len(expected) =>
                        ~IsPrefix(Encoded(Take(expected, j + 1)), sink)
          ELSE frames = <<>>
    /\ racPhase = "done" =>
          IF racErr = "nil"
          THEN ckRet = "EOF" /\ racReaders = chunks
          ELSE racErr = ckRet /\ ckRet \notin {"chunk", "EOF"} /\ racReaders = <<>>

C23_Witness ==
    /\ racPhase = "done"
    /\ racErr = "NoFrameFoundErr"
    /\ Len(chunks) >= 2
    /\ racReaders = <<>>


\* The payload holds neither a newline nor a carriage return.
PlainPayload(p) == NL \notin Range(p) /\ CR \notin Range(p)

\* C24: payloads that are not empty, hold no newline and no carriage return
\* and are shorter than the reader's buffer come back from the newline reader
\* exactly as written, in order, in either skip-empty mode.
C24_NewlineRoundTrip ==
    (/\ nlPhase = "done"
     /\ \A i \in DOMAIN nlWritten :
           /\ nlWritten[i] # <<>>
           /\ PlainPayload(nlWritten[i])
           /\ Len(nlWritten[i]) < nlBufSize)
        => (nlErr = "nil" /\ nlFrames = nlWritten)

C24_Witness ==
    /\ nlPhase = "done"
    /\ nlSkip
    /\ nlWritten = <<<<97, 97>>, <<97>>>>
    /\ nlFrames = nlWritten


Lines(s) ==
    LET RECURSIVE Go(_, _)
        Go(i, cur) ==
            IF i > Len(s) THEN <<cur>>
            ELSE IF s[i] = NL THEN <<cur>> \o Go(i + 1, <<>>)
            ELSE Go(i + 1, Append(cur, s[i]))
    IN Go(1, <<>>)

\* The lines of a stream that are not empty once a carriage return before
\* the newline is taken off.
NonEmptyLines(s) ==
    LET NotEmpty(l) == l # <<>>
        ls == Lines(s)
    IN SelectSeq([i \in DOMAIN ls |-> DropCR(ls[i])], NotEmpty)

\* C26: with skip-empty enabled the newline reader returns no empty frame:
\* ReadAllFrames over it returns exactly the non-empty lines of the stream,
\* in stream order.
C26_SkipEmptyYieldsNonEmptyLines ==
    (nlPhase = "done" /\ nlSkip) =>
        /\ nlErr = "nil"
        /\ <<>> \notin Range(nlFrames)
        /\ nlFrames = NonEmptyLines(nlSink)

C26_Witness ==
    /\ nlPhase = "done"
    /\ nlSkip
    /\ nlSink = <<97, CR, NL, NL, 97>>
    /\ nlFrames = <<<<97>>, <<97>>>>

\* C27: when a line of the stream does not fit the newline reader's buffer,
\* ReadAllFrames over the reader fails with bufio.ErrTooLong and returns no
\* frame; when every line fits it does not fail.
C27_LongLineFails ==
    nlPhase = "done" =>
        IF MaxFrameLen(nlSink) >= nlBufSize
        THEN nlErr = "ErrTooLong" /\ nlFrames = <<>>
        ELSE nlErr = "nil"

C27_Witness ==
    /\ nlPhase = "done"
    /\ nlErr = "ErrTooLong"
    /\ Len(nlWritten) = 3
    /\ Len(nlWritten[1]) = 1
    /\ Len(nlWritten[2]) = nlBufSize - 1
    /\ Len(nlWritten[3]) = nlBufSize


\* The payloads joined by single newlines.
Join(ps) ==
    LET RECURSIVE Go(_)
        Go(i) == IF i > Len(ps) THEN <<>>
                 ELSE IF i = Len(ps) THEN ps[i]
                 ELSE ps[i] \o <<NL>> \o Go(i + 1)
    IN Go(1)

\* C28: the stream the newline writer produces is its payloads joined by
\* single newlines: the first payload as it is, every later one after one
\* newline, nothing before the first and nothing after the last.
C28_WriterJoinsWithNewline ==
    nlSink = Join(nlWritten)

C28_Witness ==
    /\ nlWritten = <<<<97, 97>>, <<97>>>>
    /\ nlSink = <<97, 97, NL, 97>>


\* The sum of a sequence of numbers.
Sum(ns) ==
    LET RECURSIVE Go(_)
        Go(i) == IF i > Len(ns) THEN 0 ELSE ns[i] + Go(i + 1)
    IN Go(1)

\* C29: every Write of a framing writer returns the number of bytes it
\* appended to the sink, framing included: prefix plus payload for the
\* length-prefixed writer, payload plus one for the newline writer except on
\* its first write; so the counts returned so far add up to the length of
\* the stream in the sink.
C29_CountsAddUpToStream ==
    /\ Len(wcounts) = Len(expected)
    /\ \A i \in DOMAIN wcounts :
          wcounts[i] = Len(PutUvarint(Len(expected[i]))) + Len(expected[i])
    /\ Sum(wcounts) = Len(sink)
    /\ Len(nlCounts) = Len(nlWritten)
    /\ \A i \in DOMAIN nlCounts :
          nlCounts[i] = Len(nlWritten[i]) + (IF i = 1 THEN 0 ELSE 1)
    /\ Sum(nlCounts) = Len(nlSink)

C29_Witness ==
    /\ expected = <<<<128>>, Rep(1, LongLen)>>
    /\ wcounts = <<2, LongLen + 2>>
    /\ nlWritten = <<<<97>>, <<97>>>>
    /\ nlCounts = <<1, 2>>


\* The arguments that are not nil, in argument order.
NonNil(errs) ==
    LET NotNil(x) == x # NilErr IN SelectSeq(errs, NotNil)

\* C30: NewErrors drops the nil arguments; it returns nil when none remain,
\* the one remaining error itself when exactly one remains, and otherwise a
\* composite whose Errors() is the non-nil arguments in argument order and
\* whose Unwrap() is the first of them.
C30_NewErrorsContract ==
    neCalled =>
        LET kept == NonNil(neArgs) IN
        IF Len(kept) = 0 THEN neRet = NilErr
        ELSE IF Len(kept) = 1 THEN neRet = kept[1]
        ELSE /\ neRet.kind = "Errors"
             /\ ErrorsOf(neRet) = kept
             /\ Unwrap(neRet) = kept[1]

C30_Witness ==
    /\ neCalled
    /\ neArgs = <<NilErr, PlainErr(1), NilErr, PlainErr(2)>>
    /\ ErrorsOf(neRet) = <<PlainErr(1), PlainErr(2)>>
    /\ Unwrap(neRet) = PlainErr(1)


\* C31: for an object that implements GracefulShutdown the call invokes
\* Shutdown and returns its result; for any other object that is not a grpc
\* server it invokes nothing and returns ctx.Err(): nil for a live context,
\* the context's error for one that is done.
C31_MaybeGracefulShutdownDispatch ==
    mgCalled =>
        /\ mgObj = "graceful" =>
              /\ mgCalls = <<"Shutdown">>
              /\ mgRet = (IF mgShut = "ctxErr"
                          THEN (IF mgCtx = "live" THEN "nil" ELSE mgCtx)
                          ELSE mgShut)
        /\ mgObj = "other" =>
              /\ mgCalls = <<>>
              /\ mgRet = (IF mgCtx = "live" THEN "nil" ELSE mgCtx)

C31_Witness ==
    /\ mgCalled
    /\ mgObj = "graceful"
    /\ mgShut = "errShutdown"
    /\ mgCtx = "Canceled"
    /\ mgRet = "errShutdown"


\* server.Serve has returned an error.
ServeFailed == svServe \in {"failed", "cancelled", "panic"} \/ "ServeFailed" \in Range(svBuf)
                  \/ "ServeFailed" \in Range(svRecv)

\* C32: when server.Serve has returned an error, a receiver that drains the
\* returned channel has received the error of that failure by the time it
\* finds the channel closed.
C32_ServeFailureIsDelivered ==
    (svRecvClosed /\ ServeFailed) => "ServeFailed" \in Range(svRecv)

\* C40: no goroutine sends on the returned channel after it has been closed.
C40_NoSendAfterClose ==
    ~svPanic


\* A NextChunk call is about to read a window that holds a delimiter.
DelimiterInWindow ==
    ckRet # "InvalidArgErr" /\ ~rNil /\ LastIndexByte(Window, NL) # 0

\* C33: when the window just read holds a delimiter, the chunk's content is
\* the previous carry followed by the window up to and including its last
\* delimiter, and the new carry is the window after that delimiter.
C33_CarryAfterDelimiter ==
    [][DelimiterInWindow =>
          LET pos == LastIndexByte(Window, NL) IN
          /\ ckRet' = "chunk"
          /\ chunks' = Append(chunks, prev \o SubSeq(Window, 1, pos))
          /\ prev' = SubSeq(Window, pos + 1, Len(Window))]_vars

\* C33, amended: the chunk's content is the previous carry followed by the
\* window before its last delimiter, and the new carry is the window from
\* that delimiter on, the delimiter included.
C33_CarryFromDelimiter ==
    [][DelimiterInWindow =>
          LET pos == LastIndexByte(Window, NL) IN
          /\ ckRet' = "chunk"
          /\ chunks' = Append(chunks, prev \o SubSeq(Window, 1, pos - 1))
          /\ prev' = SubSeq(Window, pos, Len(Window))]_vars

C33_Witness ==
    /\ src = <<97, NL, 97, NL, 97>>
    /\ chunkSize = 3
    /\ ckRet = "chunk"
    /\ chunks = <<<<97>>, <<NL, 97>>>>
    /\ prev = <<NL, 97>>

\* A NextChunk call is about to read a window cut short by the end of the
\* source that holds no delimiter.
ShortWindowWithoutDelimiter ==
    /\ ckRet # "InvalidArgErr" /\ ~rNil
    /\ Len(Window) < chunkSize
    /\ LastIndexByte(Window, NL) = 0

\* C34: when the read is cut short by the end of the source and the window
\* holds no delimiter, the chunk's content is the previous carry followed by
\* the whole window, and the bytes of carry and window together are decoded
\* as one frame of that chunk.
C34_ShortWindowIsFinalChunk ==
    [][ShortWindowWithoutDelimiter =>
          LET last == DropCR(CarryTail(prev) \o Window) IN
          /\ ckRet' = "chunk"
          /\ chunks' = Append(chunks, prev \o Window)
          /\ ChunkFrames(<<chunks'[Len(chunks')]>>) =
                 (IF last = <<>> THEN <<>> ELSE <<last>>)]_vars

C34_Witness ==
    /\ src = <<97, NL, 97, 97>>
    /\ chunkSize = 3
    /\ rNil
    /\ ckRet = "chunk"
    /\ chunks = <<<<97>>, <<NL, 97, 97>>>>


\* The payload lengths the reader has decoded from the first pos bytes of s.
DecodedLengths(s, pos) ==
    LET RECURSIVE Go(_, _)
        Go(p, acc) ==
            IF p >= pos THEN acc
            ELSE LET hd == ReadUvarint(s, p) IN
                 IF hd.err # "nil" THEN acc
                 ELSE Go(hd.pos + hd.x, acc \cup {hd.x})
    IN Go(0, {})

\* The largest member of a set of numbers.
MaxOf(S) == CHOOSE m \in S : \A n \in S : n <= m

\* C35: the capacity of the length-prefixed reader's buffer is the larger of
\* its initial 256 bytes and the largest payload length the reader has
\* decoded so far, and no Read makes it smaller.
C35_BufferNeverShrinks ==
    /\ [](rcap = MaxOf(DecodedLengths(sink, rpos) \cup {varlenFrameReaderBufferSize}))
    /\ [][rcap' >= rcap]_vars

C35_Witness ==
    /\ phase = "done"
    /\ rerr = "nil"
    /\ expected = <<Rep(1, varlenFrameReaderBufferSize + 1), <<1>>>>
    /\ frames = expected
    /\ rcap = varlenFrameReaderBufferSize + 1


\* C36: the composite never reads a reader again after that reader has
\* returned end-of-stream: a reader that has returned it is no longer among
\* the composite's readers, and once none is left every Read returns
\* end-of-stream and reads no reader.
C36_ExhaustedReaderIsDropped ==
    /\ [](mfLate = {} /\ mfEof \cap Range(mfReaders) = {})
    /\ [][mfReaders = <<>> => (mfRet' = "EOF" /\ mfTouched' = {})]_vars

C36_Witness ==
    /\ Len(mfIn) = 3
    /\ \A i \in DOMAIN mfIn : mfIn[i].end = "EOF" /\ mfIn[i].n = 1
    /\ mfEof = {1, 2, 3}
    /\ mfReaders = <<>>
    /\ mfRet = "EOF"
    /\ mfTouched = {}
    /\ Len(mfOut) = 3


\* The producers inside the wrapped writer's Write, the lock held.
CwInside == {p \in Producers : cwPc[p] \in {"prefix", "payload", "unlock"}}

\* C37: at no time are two calls of the wrapped writer's Write in progress:
\* at most one producer is between mu.Lock() and the deferred mu.Unlock(),
\* and it is the one that holds the mutex.
C37_WritesAreMutuallyExclusive ==
    /\ Cardinality(CwInside) <= 1
    /\ \A p \in CwInside : cwMu = p

C37_Witness ==
    /\ cwPc[1] = "payload"
    /\ cwPc[2] = "lock"
    /\ Len(cwDone[2]) = 1

\* The frames of fs that producer p wrote, in the order they have in fs.
FramesOf(fs, p) ==
    LET Mine(f) == f # <<>> /\ f[1] = 127 + p IN SelectSeq(fs, Mine)

\* C38: whenever no Write is in progress, the frames of each producer appear
\* in the decoded stream in the order that producer wrote them.
C38_ProducerOrderIsKept ==
    CwAllIdle =>
        LET r == VarLenReadAll(cwSink) IN
        /\ r.err = "nil"
        /\ \A p \in Producers : FramesOf(r.frames, p) = cwDone[p]

C38_Witness ==
    /\ CwAllIdle
    /\ VarLenReadAll(cwSink).frames =
          <<CwPayload(1, 1), CwPayload(2, 1), CwPayload(1, 2), CwPayload(2, 2)>>

\* C39: every Write releases the lock when it returns, also when the wrapped
\* writer has failed, and every Write that was called eventually returns.
C39_EveryWriteReturns ==
    /\ [][\A p \in Producers :
             (cwPc[p] = "unlock" /\ cwPc'[p] = "idle") => cwMu' = 0]_vars
    /\ \A p \in Producers : (cwPc[p] # "idle") ~> (cwPc[p] = "idle")

C39_Witness ==
    /\ cwErr[1]
    /\ cwPc[1] = "idle"
    /\ Len(cwDone[1]) = 1
    /\ cwMu = 2
    /\ cwPc[2] = "payload"

====
